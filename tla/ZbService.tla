----------------------------- MODULE ZbService -----------------------------
(***************************************************************************)
(* What the Zigbee command link promises the tasks of the Tab5 that drive  *)
(* devices through the NanoH2 hub: commands run one after the other in the *)
(* order they were accepted in, one that is reported done has run and is   *)
(* still the last one that did, and every one is answered.  A command that *)
(* failed may or may not have run, and any may run more than once, but not *)
(* after its successor did.  Where there is doubt whose reply it was, a    *)
(* command may be reported done that was not.                              *)
(***************************************************************************)
EXTENDS Integers

CONSTANT NumJobs

VARIABLES
  answer,       (* job -> new, open, or how it ended                       *)
  last,         (* the job whose command the hub carried out last          *)
  doubt         (* the reply may be that of another try: not the link's to *)
                (* decide                                                  *)

Job == 1..NumJobs

Init == answer = [j \in Job |-> "new"] /\ last = 0

Accept(j) ==
  /\ answer[j] = "new" /\ \A i \in 1..j - 1 : answer[i] # "new"
  /\ answer' \in {[answer EXCEPT ![j] = a] : a \in {"open", "dropped"}}
  /\ UNCHANGED last

(* Every job before this one has its answer by now.                        *)
Turn(j) == \A i \in 1..j - 1 : answer[i] \notin {"new", "open"}

Run(j) ==
  /\ answer[j] \notin {"new", "dropped"} /\ Turn(j) /\ last <= j
  /\ last' = j /\ UNCHANGED answer

Answer(j) ==
  /\ answer[j] = "open" /\ Turn(j)
  /\ \/ (last = j \/ doubt) /\ answer' = [answer EXCEPT ![j] = "ok"]
     \/ answer' \in {[answer EXCEPT ![j] = a] : a \in {"refused", "silent"}}
  /\ UNCHANGED last

Next == \E j \in Job : Accept(j) \/ Run(j) \/ Answer(j)
Safety == Init /\ [][Next]_<<answer, last>>
Spec == Safety /\ WF_<<answer, last>>(\E j \in Job : Answer(j))
=============================================================================
