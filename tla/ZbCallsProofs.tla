---------------------------- MODULE ZbCallsProofs ----------------------------
(***************************************************************************)
(* The Zigbee command link keeps the promises of ZbService, as far as they *)
(* are of safety, and carries no command out more often than it was tried, *)
(* for any number of commands and tries, any depth of the buffers, any     *)
(* number of restarts and however often the sequence numbers come round.   *)
(***************************************************************************)
EXTENDS ZbCalls, FiniteSets, FiniteSetTheorems, TLAPS

-----------------------------------------------------------------------------
(* Sequences.                                                              *)
LEMMA Appended ==
  ASSUME NEW S, NEW s \in Seq(S), NEW x \in S
  PROVE  /\ Append(s, x) \in Seq(S) /\ Len(Append(s, x)) = Len(s) + 1 /\ Len(s) \in Nat
         /\ Append(s, x)[Len(s) + 1] = x
         /\ \A k \in 1..Len(s) : Append(s, x)[k] = s[k]
         /\ \A k \in 1..Len(Append(s, x)) : k = Len(s) + 1 \/ k \in 1..Len(s)
OBVIOUS

LEMMA Taken ==
  ASSUME NEW S, NEW s \in Seq(S), s # <<>>
  PROVE  /\ Head(s) \in S /\ Head(s) = s[1] /\ 1 \in 1..Len(s) /\ Tail(s) \in Seq(S)
         /\ Len(s) \in Nat \ {0} /\ Len(Tail(s)) = Len(s) - 1
         /\ \A k \in 1..Len(Tail(s)) : Tail(s)[k] = s[k + 1] /\ k + 1 \in 1..Len(s) /\ 1 < k + 1
OBVIOUS

LEMMA Bounds ==
  /\ NumJobs \in Nat \ {0} /\ Depth \in Nat \ {0} /\ MaxTries \in Nat \ {0}
  /\ UpCap \in Nat \ {0} /\ DownCap \in Nat \ {0} /\ MaxResets \in Nat
  /\ SeqMod \in Nat \ {0, 1}
BY CallAssumption

-----------------------------------------------------------------------------
(* TypeOK by the parts of the link.                                        *)
Answers == answer \in [Job -> {"new", "open", "dropped", "ok", "refused", "silent"}]
Queues == queue \in Seq(Job) /\ Len(queue) <= Depth
Working == work \in 0..NumJobs /\ tries \in 0..MaxTries /\ pc \in {"rest", "send", "wait"}
Seqs ==
  /\ txSeq \in 0..SeqMod - 1 /\ waitSeq \in 0..SeqMod - 1 /\ reused \in BOOLEAN
  /\ ack \in Replies
Wires ==
  /\ up \in Seq(Frame) /\ Len(up) <= UpCap
  /\ down \in Seq(Replies) /\ Len(down) <= DownCap
Hubs ==
  /\ hub \in Frame /\ formed \in BOOLEAN /\ last \in 0..NumJobs
  /\ runs \in [Job -> Nat] /\ resets \in 0..MaxResets

TypeInv == Answers /\ Queues /\ Working /\ Seqs /\ Wires /\ Hubs

LEMMA TypeInvTyped == TypeInv <=> TypeOK
BY DEF TypeInv, TypeOK, Answers, Queues, Working, Seqs, Wires, Hubs

(* The jobs that the worker has yet to take.                               *)
Queued(k) == \E i \in 1..Len(queue) : queue[i] = k
Waiting(k) == k \in Job /\ (answer[k] = "new" \/ Queued(k))

(* Jobs are issued, queued and worked at in order.                         *)
Jobs ==
  /\ \A i, k \in 1..Len(queue) : i < k => queue[i] < queue[k]
  /\ \A i \in 1..Len(queue) : answer[queue[i]] = "open" /\ work < queue[i]
  /\ work # 0 => answer[work] = "open"
  /\ \A j \in Job : answer[j] = "open" => j = work \/ Queued(j)
  /\ \A i, k \in Job : i < k /\ answer[i] = "new" => answer[k] = "new"

(* A job whose frame may be under way: all before it have their answer.    *)
Sent(j) ==
  /\ j \in Job /\ answer[j] \notin {"new", "dropped"} /\ Service!Turn(j)
  /\ work # 0 => j <= work
  /\ \A i \in 1..Len(queue) : j < queue[i]

AtHub == hub # NoFrame

(* Frames reach the hub in the order of their jobs.                        *)
Order ==
  /\ \A i \in 1..Len(up) : Sent(up[i].job) /\ last <= up[i].job
  /\ \A i, k \in 1..Len(up) : i < k => up[i].job <= up[k].job
  /\ AtHub => Sent(hub.job) /\ last <= hub.job /\ \A i \in 1..Len(up) : hub.job <= up[i].job
  /\ last = 0 \/ Sent(last)

(* What is under way carries a number that was given out.                  *)
Given(x) == x \in 1..SeqMod - 1
Numbered ==
  /\ \A i \in 1..Len(up) : Given(up[i].seq)
  /\ AtHub => Given(hub.seq)
  /\ \A i \in 1..Len(down) : Given(down[i].seq)

(* Where the worker is, and what it has noted.                             *)
Steps ==
  /\ waitSeq # 0 => waitSeq = txSeq /\ work # 0
  /\ pc = "rest" <=> work = 0
  /\ pc = "wait" => waitSeq # 0
  /\ pc = "send" => tries < MaxTries
  /\ ack = NoReply \/ (waitSeq # 0 /\ ack.seq = waitSeq)

(* Unless it was still under way when it was given out again, the number   *)
(* waited for is that of a try of this job, and a job whose try was        *)
(* confirmed is the last one that ran.                                     *)
Own == waitSeq # 0 /\ ~reused =>
  /\ \A i \in 1..Len(up) : up[i].seq = waitSeq => up[i].job = work
  /\ AtHub /\ hub.seq = waitSeq => hub.job = work
  /\ \A i \in 1..Len(down) : down[i].seq = waitSeq /\ ~down[i].nak => last = work
  /\ ack.seq = waitSeq /\ ~ack.nak => last = work

CallInv == TypeInv /\ Jobs /\ Order /\ Numbered /\ Steps /\ Own

LEMMA CallInit == Init => CallInv /\ Service!Init
<1> SUFFICES ASSUME Init PROVE CallInv /\ Service!Init
  OBVIOUS
<1>1. Len(queue) = 0 /\ Len(up) = 0 /\ Len(down) = 0
  BY DEF Init
<1>2. queue \in Seq(Job) /\ up \in Seq(Frame) /\ down \in Seq(Replies)
  BY DEF Init
<1>3. NoFrame \in Frame /\ NoReply \in Replies
  BY Bounds DEF NoFrame, NoReply, Frame, Replies
<1>4. Answers /\ Working
  BY Bounds DEF Init, Answers, Working
<1>5. Seqs
  <2>1. txSeq \in 0..SeqMod - 1 /\ waitSeq \in 0..SeqMod - 1
    BY Bounds DEF Init
  <2>2. reused \in BOOLEAN /\ ack \in Replies
    BY <1>3 DEF Init
  <2> QED BY <2>1, <2>2 DEF Seqs
<1>6. Queues /\ Wires
  BY <1>1, <1>2, Bounds DEF Queues, Wires
<1>7. Hubs
  <2>1. formed \in BOOLEAN /\ hub \in Frame /\ runs \in [Job -> Nat]
    BY <1>3 DEF Init
  <2>2. last \in 0..NumJobs /\ resets \in 0..MaxResets
    BY Bounds DEF Init
  <2> QED BY <2>1, <2>2 DEF Hubs
<1>8. Jobs
  BY <1>1 DEF Init, Jobs
<1>9. Order /\ Numbered
  BY <1>1 DEF Init, Order, Numbered, AtHub
<1>10. Steps /\ Own
  BY DEF Init, Steps, Own
<1> QED BY <1>4, <1>5, <1>6, <1>7, <1>8, <1>9, <1>10
        DEF Init, TypeInv, CallInv, Service!Init, Job, Service!Job

-----------------------------------------------------------------------------
(* The next number is not 0, though it may be in use.                      *)
LEMMA NextTyped ==
  ASSUME TypeInv
  PROVE  NextSeq = (IF txSeq = SeqMod - 1 THEN 1 ELSE txSeq + 1) /\ NextSeq \in 1..SeqMod - 1
<1>1. txSeq \in 0..SeqMod - 1 /\ SeqMod \in Nat \ {0, 1}
  BY Bounds DEF TypeInv, Seqs
<1>2. CASE txSeq = SeqMod - 1
  <2>1. (txSeq + 1) % SeqMod = 0
    BY <1>1, <1>2
  <2> QED BY <1>1, <1>2, <2>1 DEF NextSeq
<1>3. CASE txSeq # SeqMod - 1
  <2>1. (txSeq + 1) % SeqMod = txSeq + 1 /\ txSeq + 1 # 0
    BY <1>1, <1>3
  <2> QED BY <1>1, <1>3, <2>1 DEF NextSeq
<1> QED BY <1>2, <1>3

-----------------------------------------------------------------------------
(* What a job has reached stays reached.                                   *)
LEMMA JobsTyped ==
  ASSUME TypeInv
  PROVE  /\ queue \in Seq(Job) /\ Len(queue) \in Nat /\ work \in 0..NumJobs
         /\ \A i \in 1..Len(queue) : queue[i] \in Job /\ queue[i] \in 1..NumJobs
         /\ NumJobs \in Nat \ {0} /\ Job = 1..NumJobs
<1>1. queue \in Seq(Job) /\ work \in 0..NumJobs /\ NumJobs \in Nat \ {0} /\ Job = 1..NumJobs
  BY Bounds DEF TypeInv, Queues, Working, Job
<1>2. Len(queue) \in Nat /\ \A i \in 1..Len(queue) : queue[i] \in Job
  BY <1>1
<1> QED BY <1>1, <1>2

(* The worker's job is the first that is open, and what waits comes later. *)
LEMMA WorkFirst ==
  ASSUME TypeInv, Jobs, work # 0
  PROVE  /\ work \in Job /\ Service!Turn(work) /\ Sent(work)
         /\ \A k : Waiting(k) => work < k
<1>1. work \in Job
  BY JobsTyped
<1>2. ASSUME NEW i \in 1..work - 1 PROVE answer[i] \notin {"new", "open"}
  <2>1. i \in Job /\ i < work /\ i # work
    BY <1>1, JobsTyped
  <2>2. answer[i] # "new"
    BY <1>1, <2>1 DEF Jobs
  <2>3. ~Queued(i)
    BY <1>1, <2>1, JobsTyped DEF Jobs, Queued
  <2> QED BY <2>1, <2>2, <2>3 DEF Jobs
<1>3. Service!Turn(work)
  BY <1>2 DEF Service!Turn
<1>4. Sent(work)
  BY <1>1, <1>3, JobsTyped DEF Sent, Jobs
<1>5. ASSUME NEW k, Waiting(k) PROVE work < k
  <2>1. CASE k \in Job /\ Queued(k)
    BY <2>1 DEF Queued, Jobs
  <2>2. CASE k \in Job /\ answer[k] = "new"
    <3>1. k # work /\ ~(k < work)
      BY <1>1, <2>2 DEF Jobs
    <3> QED BY <3>1, <2>2, JobsTyped
  <2> QED BY <1>5, <2>1, <2>2 DEF Waiting
<1> QED BY <1>1, <1>3, <1>4, <1>5

(* Steps that change neither jobs nor the worker.                          *)
LEMMA Kept ==
  ASSUME answer' = answer, queue' = queue, work' = work
  PROVE  /\ Jobs' = Jobs /\ \A j : Sent(j)' = Sent(j)
         /\ \A k : Waiting(k)' = Waiting(k)
<1>1. Jobs' = Jobs
  BY DEF Jobs, Queued
<1>2. \A j : Sent(j)' = Sent(j)
  BY DEF Sent, Service!Turn
<1>3. \A k : Waiting(k)' = Waiting(k)
  BY DEF Waiting, Queued
<1> QED BY <1>1, <1>2, <1>3

LEMMA EnqueueJobs ==
  ASSUME TypeInv, Jobs, Enqueue
  PROVE  /\ Answers' /\ Queues' /\ Jobs' /\ \A j : Sent(j) => Sent(j)'
         /\ \A k : Waiting(k)' => Waiting(k)
         /\ \E j \in Job : Service!Accept(j)
<1>1. PICK n \in Job : Enqueue!(n)
  BY DEF Enqueue
<1> DEFINE q == queue'
<1>2. /\ answer[n] = "new" /\ \A i \in 1..n - 1 : answer[i] # "new"
      /\ answer' \in {[answer EXCEPT ![n] = a] : a \in {"open", "dropped"}}
      /\ work' = work /\ last' = last
  BY <1>1 DEF worker, hubs
<1>3. Service!Accept(n)
  BY <1>2 DEF Service!Accept
<1>4. answer \in [Job -> {"new", "open", "dropped", "ok", "refused", "silent"}]
  BY DEF TypeInv, Answers
<1>5. /\ answer'[n] \in {"open", "dropped"} /\ answer'[n] # "new"
      /\ \A j \in Job : j # n => answer'[j] = answer[j]
  BY <1>2, <1>4
<1>6. Answers'
  BY <1>2, <1>4 DEF Answers
<1>7. \/ q = queue /\ answer'[n] = "dropped"
      \/ /\ q = Append(queue, n) /\ answer'[n] = "open" /\ Len(queue) < Depth
  BY <1>1, <1>4
<1>8. Queues'
  <2>1. Len(queue) <= Depth /\ Len(queue) \in Nat /\ queue \in Seq(Job) /\ Depth \in Nat
    BY Bounds, JobsTyped DEF TypeInv, Queues
  <2>2. q \in Seq(Job) /\ Len(q) <= Depth
    <3>1. CASE q = queue
      BY <3>1, <2>1
    <3>2. CASE q = Append(queue, n) /\ Len(queue) < Depth
      <4>1. Append(queue, n) \in Seq(Job) /\ Len(Append(queue, n)) = Len(queue) + 1
        BY <2>1, Appended
      <4> QED BY <3>2, <4>1, <2>1
    <3> QED BY <1>7, <3>1, <3>2
  <2> QED BY <2>2 DEF Queues
<1>9. /\ Len(queue) \in Nat /\ \A i \in 1..Len(queue) : q[i] = queue[i] /\ i \in 1..Len(q)
      /\ \A i \in 1..Len(q) : i \in 1..Len(queue)
           \/ (i = Len(queue) + 1 /\ q[i] = n /\ answer'[n] = "open")
  BY <1>7, JobsTyped, Appended, SMTT(30)
<1> HIDE DEF q
<1>10. \A k : Queued(k)' <=> \E i \in 1..Len(q) : q[i] = k
  BY DEF Queued, q
<1>11. \A j \in Job : answer[j] # "new" => j < n
  BY <1>2, JobsTyped DEF Jobs
<1>12. ~Queued(n) /\ \A i \in 1..Len(queue) : queue[i] \in Job /\ queue[i] < n /\ queue[i] # n
  BY <1>2, <1>11, JobsTyped DEF Jobs, Queued
<1>13. work # 0 => work \in Job /\ work < n
  BY <1>11, JobsTyped DEF Jobs
<1>14. Jobs'
  <2>1. \A i, k \in 1..Len(q) : i < k => q[i] < q[k]
    <3> SUFFICES ASSUME NEW i \in 1..Len(q), NEW k \in 1..Len(q), i < k PROVE q[i] < q[k]
      OBVIOUS
    <3>1. i \in 1..Len(queue) /\ q[i] = queue[i]
      BY <1>9
    <3>2. CASE k \in 1..Len(queue)
      BY <1>9, <3>1, <3>2 DEF Jobs
    <3>3. CASE q[k] = n
      BY <1>12, <3>1, <3>3
    <3> QED BY <1>9, <3>2, <3>3
  <2>2. \A i \in 1..Len(q) : answer'[q[i]] = "open" /\ work' < q[i]
    <3> SUFFICES ASSUME NEW i \in 1..Len(q) PROVE answer'[q[i]] = "open" /\ work' < q[i]
      OBVIOUS
    <3>1. CASE i \in 1..Len(queue)
      BY <3>1, <1>2, <1>5, <1>9, <1>12 DEF Jobs
    <3>2. CASE i = Len(queue) + 1 /\ q[i] = n /\ answer'[n] = "open"
      BY <3>2, <1>2, <1>13, JobsTyped
    <3> QED BY <3>1, <3>2, <1>9
  <2>3. work' # 0 => answer'[work'] = "open"
    BY <1>2, <1>5, <1>13, JobsTyped DEF Jobs
  <2>4. \A j \in Job : answer'[j] = "open" => j = work' \/ Queued(j)'
    <3> SUFFICES ASSUME NEW j \in Job, answer'[j] = "open" PROVE j = work' \/ Queued(j)'
      OBVIOUS
    <3>1. CASE j = n
      <4>1. q[Len(queue) + 1] = n /\ Len(queue) + 1 \in 1..Len(q)
        BY <1>7, <3>1, JobsTyped, Appended DEF q
      <4> QED BY <3>1, <4>1, <1>10
    <3>2. CASE j # n
      <4>1. j = work \/ Queued(j)
        BY <3>2, <1>5 DEF Jobs
      <4>2. ASSUME NEW i \in 1..Len(queue), queue[i] = j PROVE Queued(j)'
        BY <4>2, <1>9, <1>10
      <4> QED BY <4>1, <4>2, <1>2 DEF Queued
    <3> QED BY <3>1, <3>2
  <2>5. \A i, k \in Job : i < k /\ answer'[i] = "new" => answer'[k] = "new"
    <3> SUFFICES ASSUME NEW i \in Job, NEW k \in Job, i < k, answer'[i] = "new"
                 PROVE  answer'[k] = "new"
      OBVIOUS
    <3>1. i # n /\ answer[i] = "new"
      BY <1>5
    <3>2. ~(i < n)
      BY <3>1, <1>2, JobsTyped
    <3>3. k # n
      BY <3>2, JobsTyped
    <3> QED BY <3>1, <3>3, <1>5 DEF Jobs
  <2> QED BY <2>1, <2>2, <2>3, <2>4, <2>5 DEF Jobs, q
<1>15. ASSUME NEW j, Sent(j) PROVE Sent(j)'
  <2>1. j \in Job /\ j # n /\ j < n
    BY <1>15, <1>2, <1>11 DEF Sent
  <2>2. Service!Turn(j)'
    <3>1. \A i \in 1..j - 1 : i \in Job /\ i # n /\ answer[i] \notin {"new", "open"}
      BY <1>15, <2>1, JobsTyped DEF Sent, Service!Turn
    <3>2. \A i \in 1..j - 1 : answer'[i] \notin {"new", "open"}
      BY <3>1, <1>5
    <3> QED BY <3>2 DEF Service!Turn
  <2>3. \A i \in 1..Len(q) : j < q[i]
    BY <1>9, <1>15, <2>1 DEF Sent
  <2> QED BY <1>2, <1>5, <1>15, <2>1, <2>2, <2>3 DEF Sent, q
<1>16. \A k : Waiting(k)' => Waiting(k)
  <2> SUFFICES ASSUME NEW k, Waiting(k)' PROVE Waiting(k)
    OBVIOUS
  <2>1. CASE k = n
    BY <2>1, <1>2 DEF Waiting
  <2>2. CASE k \in Job /\ k # n /\ answer'[k] = "new"
    BY <2>2, <1>5 DEF Waiting
  <2>3. CASE k \in Job /\ k # n /\ Queued(k)'
    <3>1. PICK i \in 1..Len(q) : q[i] = k
      BY <2>3, <1>10
    <3>2. i \in 1..Len(queue) /\ queue[i] = k
      BY <2>3, <3>1, <1>9
    <3> QED BY <2>3, <3>2 DEF Waiting, Queued
  <2> QED BY <2>1, <2>2, <2>3 DEF Waiting
<1> QED BY <1>3, <1>6, <1>8, <1>14, <1>15, <1>16

LEMMA TakeJobs ==
  ASSUME TypeInv, Jobs, Steps, Take
  PROVE  /\ Queues' /\ Working' /\ Jobs' /\ \A j : Sent(j) => Sent(j)'
         /\ \A k : Waiting(k)' => Waiting(k)
         /\ work = 0 /\ work' \in Job /\ Waiting(work')
<1>1. /\ pc = "rest" /\ work = 0 /\ queue # <<>> /\ work' = Head(queue) /\ queue' = Tail(queue)
      /\ tries' = 0 /\ pc' = "send" /\ answer' = answer
  BY DEF Take, Steps
<1> DEFINE q == queue'
<1>2. /\ work' = queue[1] /\ 1 \in 1..Len(queue) /\ q \in Seq(Job) /\ Len(q) = Len(queue) - 1
      /\ Len(queue) \in Nat /\ Len(q) \in Nat /\ work' \in Job
      /\ \A i \in 1..Len(q) : q[i] = queue[i + 1] /\ i + 1 \in 1..Len(queue) /\ 1 < i + 1
  BY <1>1, JobsTyped, Taken
<1>3. Queues'
  <2>1. Len(queue) <= Depth /\ Depth \in Nat
    BY Bounds DEF TypeInv, Queues
  <2>2. Len(q) <= Depth
    <3> HIDE DEF q
    <3> QED BY <1>2, <2>1
  <2> QED BY <1>2, <2>2 DEF Queues
<1>4. Working'
  BY <1>1, <1>2, Bounds DEF Working, Job
<1> HIDE DEF q
<1>5. \A k : Queued(k)' => Queued(k)
  BY <1>2 DEF Queued, q
<1>6. \A k : Queued(k) => k = work' \/ Queued(k)'
  <2> SUFFICES ASSUME NEW k, Queued(k), k # work' PROVE Queued(k)'
    OBVIOUS
  <2>1. PICK i \in 1..Len(queue) : queue[i] = k
    BY DEF Queued
  <2>2. i # 1
    BY <1>2, <2>1
  <2>3. i - 1 \in 1..Len(q) /\ (i - 1) + 1 = i
    BY <1>2, <2>2
  <2>4. q[i - 1] = k
    BY <1>2, <2>1, <2>3
  <2> QED BY <2>3, <2>4 DEF Queued, q
<1>7. answer[work'] = "open" /\ Waiting(work')
  BY <1>2 DEF Jobs, Waiting, Queued
<1>8. Jobs'
  <2>1. \A i, k \in 1..Len(q) : i < k => q[i] < q[k]
    <3> SUFFICES ASSUME NEW i \in 1..Len(q), NEW k \in 1..Len(q), i < k PROVE q[i] < q[k]
      OBVIOUS
    <3>1. i + 1 < k + 1
      BY <1>2
    <3> QED BY <1>2, <3>1 DEF Jobs
  <2>2. \A i \in 1..Len(q) : answer'[q[i]] = "open" /\ work' < q[i]
    <3> SUFFICES ASSUME NEW i \in 1..Len(q) PROVE answer'[q[i]] = "open" /\ work' < q[i]
      OBVIOUS
    <3>1. q[i] = queue[i + 1] /\ i + 1 \in 1..Len(queue) /\ 1 < i + 1
      BY <1>2
    <3>2. queue[1] < queue[i + 1]
      BY <1>2, <3>1 DEF Jobs
    <3>3. answer[queue[i + 1]] = "open"
      BY <3>1 DEF Jobs
    <3> QED BY <1>1, <1>2, <3>1, <3>2, <3>3
  <2>3. \A j \in Job : answer'[j] = "open" => j = work' \/ Queued(j)'
    <3> SUFFICES ASSUME NEW j \in Job, answer[j] = "open" PROVE j = work' \/ Queued(j)'
      BY <1>1
    <3>1. j # 0
      BY JobsTyped
    <3> QED BY <1>1, <1>6, <3>1 DEF Jobs
  <2> QED BY <1>1, <1>7, <2>1, <2>2, <2>3 DEF Jobs, q
<1>9. ASSUME NEW j, Sent(j) PROVE Sent(j)'
  <2>1. j <= work'
    BY <1>2, <1>9, JobsTyped DEF Sent
  <2>2. \A i \in 1..Len(q) : j < q[i]
    BY <1>2, <1>9 DEF Sent
  <2> QED BY <1>1, <1>9, <2>1, <2>2 DEF Sent, Service!Turn, q
<1>10. \A k : Waiting(k)' => Waiting(k)
  BY <1>1, <1>5 DEF Waiting
<1> QED BY <1>1, <1>2, <1>3, <1>4, <1>7, <1>8, <1>9, <1>10

LEMMA ReportJobs ==
  ASSUME TypeInv, Jobs, work # 0, NEW a \in {"ok", "refused", "silent"}, Report(a), queue' = queue,
         tries' = tries
  PROVE  /\ Answers' /\ Queues' /\ Working' /\ Jobs' /\ \A j : Sent(j) => Sent(j)'
         /\ \A k : Waiting(k)' => Waiting(k)
<1>1. /\ answer' = [answer EXCEPT ![work] = a] /\ work' = 0 /\ pc' = "rest" /\ work \in Job
      /\ answer \in [Job -> {"new", "open", "dropped", "ok", "refused", "silent"}]
  BY WorkFirst DEF Report, TypeInv, Answers
<1>2. answer'[work] = a /\ \A j \in Job : j # work => answer'[j] = answer[j]
  BY <1>1
<1>3. Answers' /\ Queues' /\ Working'
  <2>1. Answers'
    BY <1>1 DEF Answers
  <2>2. Queues'
    BY DEF TypeInv, Queues
  <2>3. Working'
    BY <1>1, Bounds DEF TypeInv, Working
  <2> QED BY <2>1, <2>2, <2>3
<1>4. \A i \in 1..Len(queue) : queue[i] \in Job /\ queue[i] # work /\ work < queue[i]
  BY JobsTyped DEF Jobs
<1>5. Jobs'
  <2>1. \A i \in 1..Len(queue) : answer'[queue[i]] = "open" /\ work' < queue[i]
    BY <1>1, <1>2, <1>4, JobsTyped DEF Jobs
  <2>2. \A j \in Job : answer'[j] = "open" => j = work' \/ Queued(j)'
    BY <1>2 DEF Jobs, Queued
  <2>3. \A i, k \in Job : i < k /\ answer'[i] = "new" => answer'[k] = "new"
    BY <1>1, <1>2 DEF Jobs
  <2> QED BY <1>1, <2>1, <2>2, <2>3 DEF Jobs
<1>6. ASSUME NEW j, Sent(j) PROVE Sent(j)'
  <2>1. j \in Job /\ answer'[j] \notin {"new", "dropped"}
    BY <1>2, <1>6 DEF Sent
  <2>2. \A i \in 1..j - 1 : i \in Job /\ answer'[i] \notin {"new", "open"}
    <3> SUFFICES ASSUME NEW i \in 1..j - 1
                 PROVE  i \in Job /\ answer'[i] \notin {"new", "open"}
      OBVIOUS
    <3>1. i \in Job
      BY <2>1, JobsTyped
    <3>2. answer[i] \notin {"new", "open"}
      BY <1>6 DEF Sent, Service!Turn
    <3>3. CASE i = work
      BY <1>2, <3>1, <3>3
    <3>4. CASE i # work
      BY <1>2, <3>1, <3>2, <3>4
    <3> QED BY <3>3, <3>4
  <2> QED BY <1>1, <1>6, <2>1, <2>2 DEF Sent, Service!Turn
<1>7. \A k : Waiting(k)' => Waiting(k)
  BY <1>1, <1>2 DEF Waiting, Queued
<1> QED BY <1>3, <1>5, <1>6, <1>7

-----------------------------------------------------------------------------
(* What a step takes from the wires and from the hub.                      *)
Shrunk(new, old) == new = old \/ new = <<>> \/ (old # <<>> /\ new = Tail(old))

LEMMA Embedded ==
  ASSUME NEW S, NEW old \in Seq(S), NEW new, Shrunk(new, old)
  PROVE  /\ new \in Seq(S) /\ Len(new) \in Nat /\ Len(old) \in Nat /\ Len(new) <= Len(old)
         /\ \E d \in {0, 1} : \A k \in 1..Len(new) : new[k] = old[k + d] /\ k + d \in 1..Len(old)
<1>1. CASE new = old
  <2>1. \A k \in 1..Len(new) : new[k] = old[k + 0] /\ k + 0 \in 1..Len(old)
    BY <1>1
  <2> QED BY <1>1, <2>1
<1>2. CASE new = <<>>
  <2>1. Len(new) = 0 /\ new \in Seq(S) /\ Len(old) \in Nat
    BY <1>2
  <2> QED BY <2>1
<1>3. CASE old # <<>> /\ new = Tail(old)
  BY <1>3, Taken
<1> QED BY <1>1, <1>2, <1>3 DEF Shrunk

LEMMA WiresKept ==
  ASSUME Wires, Order, Numbered, \A j : Sent(j) => Sent(j)',
         Shrunk(up', up), Shrunk(down', down), hub' \in {hub, NoFrame}, last' = last
  PROVE  Wires' /\ Order' /\ Numbered'
<1> DEFINE u == up'
           w == down'
<1>1. /\ u \in Seq(Frame) /\ Len(u) \in Nat /\ Len(up) \in Nat /\ Len(u) <= Len(up)
      /\ \E d \in {0, 1} : \A k \in 1..Len(u) : u[k] = up[k + d] /\ k + d \in 1..Len(up)
  BY Embedded DEF Wires
<1>2. /\ w \in Seq(Replies) /\ Len(w) \in Nat /\ Len(down) \in Nat /\ Len(w) <= Len(down)
      /\ \E d \in {0, 1} : \A k \in 1..Len(w) : w[k] = down[k + d] /\ k + d \in 1..Len(down)
  BY Embedded DEF Wires
<1>3. Wires'
  <2>1. Len(up) <= UpCap /\ Len(down) <= DownCap /\ UpCap \in Nat /\ DownCap \in Nat
    BY Bounds DEF Wires
  <2> HIDE DEF u, w
  <2>2. u \in Seq(Frame) /\ Len(u) <= UpCap /\ w \in Seq(Replies) /\ Len(w) <= DownCap
    BY <1>1, <1>2, <2>1
  <2> QED BY <2>2 DEF Wires, u, w
<1>4. PICK d \in {0, 1} : \A k \in 1..Len(u) : u[k] = up[k + d] /\ k + d \in 1..Len(up)
  BY <1>1
<1>5. PICK e \in {0, 1} : \A k \in 1..Len(w) : w[k] = down[k + e] /\ k + e \in 1..Len(down)
  BY <1>2
<1> HIDE DEF u, w
<1>6. AtHub' => AtHub /\ hub' = hub
  BY DEF AtHub
<1>7. Order'
  <2>1. ASSUME NEW k \in 1..Len(u) PROVE Sent(up[k].job)' /\ last' <= u[k].job
    <3>1. u[k] = up[k + d] /\ k + d \in 1..Len(up)
      BY <1>4
    <3>2. Sent(up[k + d].job) /\ last <= up[k + d].job
      BY <3>1 DEF Order
    <3>3. PICK j : j = up[k + d].job
      OBVIOUS
    <3>4. Sent(j)' /\ last' <= j
      BY <3>2, <3>3
    <3> QED BY <3>1, <3>3, <3>4 DEF u
  <2>2. \A i, k \in 1..Len(u) : i < k => u[i].job <= u[k].job
    <3> SUFFICES ASSUME NEW i \in 1..Len(u), NEW k \in 1..Len(u), i < k
                 PROVE  u[i].job <= u[k].job
      OBVIOUS
    <3>1. i + d < k + d /\ i + d \in 1..Len(up) /\ k + d \in 1..Len(up)
      BY <1>1, <1>4
    <3> QED BY <1>4, <3>1 DEF Order
  <2>3. AtHub' => Sent(hub.job)' /\ last' <= hub'.job /\ \A k \in 1..Len(u) : hub'.job <= u[k].job
    <3> SUFFICES ASSUME AtHub'
                 PROVE  /\ Sent(hub.job)' /\ last' <= hub'.job
                        /\ \A k \in 1..Len(u) : hub'.job <= u[k].job
      OBVIOUS
    <3>1. PICK j : j = hub.job
      OBVIOUS
    <3>2. Sent(j) /\ last <= j /\ \A k \in 1..Len(up) : j <= up[k].job
      BY <1>6, <3>1 DEF Order
    <3>3. Sent(j)' /\ last' <= j /\ hub'.job = j
      BY <1>6, <3>1, <3>2
    <3>4. \A k \in 1..Len(u) : j <= u[k].job
      BY <1>4, <3>2
    <3> QED BY <3>3, <3>4
  <2>4. last' = 0 \/ Sent(last)'
    <3>1. PICK j : j = last
      OBVIOUS
    <3>2. j = 0 \/ Sent(j)'
      BY <3>1 DEF Order
    <3> QED BY <3>1, <3>2
  <2> QED BY <2>1, <2>2, <2>3, <2>4 DEF Order, u
<1>8. Numbered'
  <2>1. \A k \in 1..Len(u) : Given(u[k].seq)
    BY <1>4 DEF Numbered
  <2>2. \A k \in 1..Len(w) : Given(w[k].seq)
    BY <1>5 DEF Numbered
  <2>3. AtHub' => Given(hub'.seq)
    BY <1>6 DEF Numbered
  <2> QED BY <2>1, <2>2, <2>3 DEF Numbered, Given, u, w
<1> QED BY <1>3, <1>7, <1>8

(* ... and what the worker waits for.                                      *)
LEMMA OwnKept ==
  ASSUME Wires, Own, waitSeq' # 0 => waitSeq' = waitSeq /\ work' = work, reused' = reused,
         ack' = ack \/ ack' = NoReply \/ (down # <<>> /\ ack' = Head(down)),
         Shrunk(up', up), Shrunk(down', down), hub' \in {hub, NoFrame}, last' = last
  PROVE  Own'
<1> SUFFICES ASSUME waitSeq' # 0, ~reused'
             PROVE  /\ \A i \in 1..Len(up') : up'[i].seq = waitSeq' => up'[i].job = work'
                    /\ AtHub' /\ hub'.seq = waitSeq' => hub'.job = work'
                    /\ \A i \in 1..Len(down') :
                         down'[i].seq = waitSeq' /\ ~down'[i].nak => last' = work'
                    /\ ack'.seq = waitSeq' /\ ~ack'.nak => last' = work'
  BY DEF Own
<1>1. waitSeq' = waitSeq /\ work' = work /\ waitSeq # 0 /\ ~reused
  OBVIOUS
<1>2. PICK d \in {0, 1} : \A k \in 1..Len(up') : up'[k] = up[k + d] /\ k + d \in 1..Len(up)
  BY Embedded DEF Wires
<1>3. PICK e \in {0, 1} : \A k \in 1..Len(down') :
        down'[k] = down[k + e] /\ k + e \in 1..Len(down)
  BY Embedded DEF Wires
<1>4. \A i \in 1..Len(up') : up'[i].seq = waitSeq' => up'[i].job = work'
  BY <1>1, <1>2 DEF Own
<1>5. \A i \in 1..Len(down') : down'[i].seq = waitSeq' /\ ~down'[i].nak => last' = work'
  BY <1>1, <1>3 DEF Own
<1>6. AtHub' /\ hub'.seq = waitSeq' => hub'.job = work'
  BY <1>1 DEF Own, AtHub
<1>7. ack'.seq = waitSeq' /\ ~ack'.nak => last' = work'
  <2>1. CASE ack' = ack
    BY <1>1, <2>1 DEF Own
  <2>2. CASE ack' = NoReply
    BY <1>1, <2>2 DEF NoReply
  <2>3. CASE down # <<>> /\ ack' = Head(down)
    <3>1. Head(down) = down[1] /\ 1 \in 1..Len(down)
      BY <2>3, Taken DEF Wires
    <3> QED BY <1>1, <2>3, <3>1 DEF Own
  <2> QED BY <2>1, <2>2, <2>3
<1> QED BY <1>4, <1>5, <1>6, <1>7
-----------------------------------------------------------------------------
(* The invariant, action by action.                                        *)
LEMMA SendKept ==
  ASSUME CallInv, Send
  PROVE  CallInv'
<1> DEFINE n == NextSeq
           f == [seq |-> n, job |-> work]
           u == up'
<1>1. TypeInv /\ Jobs /\ Order /\ Numbered /\ Steps /\ Own
  BY DEF CallInv
<1>2. /\ pc = "send" /\ pc' = "wait" /\ work # 0 /\ work' = work /\ tries < MaxTries
      /\ tries' = tries + 1 /\ txSeq' = n /\ waitSeq' = n /\ ack' = NoReply
      /\ answer' = answer /\ queue' = queue /\ down' = down /\ hub' = hub /\ last' = last
      /\ formed' = formed /\ runs' = runs /\ resets' = resets /\ reused' = (n \in UnderWay)
      /\ u = (IF Len(up) < UpCap THEN Append(up, f) ELSE up)
  BY <1>1 DEF Send, Steps, hubs
<1>3. n \in 1..SeqMod - 1 /\ SeqMod \in Nat /\ work \in 0..NumJobs
  BY <1>1, NextTyped, Bounds, JobsTyped
<1>4. f \in Frame /\ NoReply \in Replies
  BY <1>3, Bounds DEF Frame, NoReply, Replies
<1>5. /\ u \in Seq(Frame) /\ Len(up) \in Nat /\ Len(u) \in Nat /\ Len(u) <= UpCap
      /\ \A k \in 1..Len(u) : (k = Len(up) + 1 /\ u[k] = f) \/ (k \in 1..Len(up) /\ u[k] = up[k])
  <2>1. up \in Seq(Frame) /\ Len(up) <= UpCap /\ Len(up) \in Nat /\ UpCap \in Nat
    BY <1>1, Bounds DEF TypeInv, Wires
  <2>2. CASE Len(up) < UpCap
    <3>1. /\ u \in Seq(Frame) /\ Len(u) = Len(up) + 1 /\ u[Len(up) + 1] = f
          /\ \A k \in 1..Len(up) : u[k] = up[k]
      BY <1>2, <1>4, <2>1, <2>2, Appended
    <3> HIDE DEF u, f
    <3> QED BY <2>1, <2>2, <3>1
  <2>3. CASE ~(Len(up) < UpCap)
    BY <1>2, <2>1, <2>3
  <2> QED BY <2>2, <2>3
<1> HIDE DEF n, u
<1>6. ~reused' => /\ \A k \in 1..Len(up) : up[k].seq # n
                 /\ hub.seq # n /\ \A k \in 1..Len(down) : down[k].seq # n
  <2>1. /\ DOMAIN up = 1..Len(up) /\ DOMAIN down = 1..Len(down)
    BY <1>1 DEF TypeInv, Wires
  <2> QED BY <1>2, <2>1 DEF UnderWay, SeqsOf
<1>7. Jobs' /\ (\A j : Sent(j)' = Sent(j)) /\ Sent(work)
  BY <1>1, <1>2, Kept, WorkFirst
<1>8. TypeInv'
  <2>1. Answers' /\ Queues' /\ Hubs'
    BY <1>1, <1>2 DEF TypeInv, Answers, Queues, Hubs
  <2>2. tries + 1 \in 0..MaxTries
    BY <1>1, <1>2, Bounds DEF TypeInv, Working
  <2>3. Working'
    BY <1>2, <1>3, <2>2 DEF Working
  <2>4. Seqs'
    BY <1>2, <1>3, <1>4 DEF Seqs
  <2>5. Wires'
    BY <1>1, <1>2, <1>5 DEF TypeInv, Wires, u
  <2> QED BY <2>1, <2>3, <2>4, <2>5 DEF TypeInv
<1>9. \A k \in 1..Len(u) :
        /\ (u[k] = f /\ u[k].seq = n /\ u[k].job = work) \/ (k \in 1..Len(up) /\ u[k] = up[k])
        /\ \A i \in 1..Len(u) : i < k => i \in 1..Len(up) /\ u[i] = up[i]
  BY <1>5
<1>10. /\ \A k \in 1..Len(up) : up[k].job <= work /\ last <= up[k].job /\ Sent(up[k].job)
       /\ AtHub => hub.job <= work
       /\ last <= work
  <2>1. last = 0 \/ Sent(last)
    BY <1>1 DEF Order
  <2>2. last <= work
    BY <1>2, <1>3, <2>1, Bounds DEF Sent
  <2> QED BY <1>1, <1>2, <2>2 DEF Order, Sent
<1>11. Order'
  <2>1. ASSUME NEW k \in 1..Len(u) PROVE Sent(up[k].job)' /\ last' <= u[k].job
    <3>1. Sent(u[k].job) /\ last <= u[k].job
      BY <1>7, <1>9, <1>10
    <3>2. PICK j : j = u[k].job
      OBVIOUS
    <3> QED BY <1>2, <1>7, <3>1, <3>2 DEF u
  <2>2. \A i, k \in 1..Len(u) : i < k => u[i].job <= u[k].job
    <3> SUFFICES ASSUME NEW i \in 1..Len(u), NEW k \in 1..Len(u), i < k
                 PROVE  u[i].job <= u[k].job
      OBVIOUS
    <3>1. i \in 1..Len(up) /\ u[i] = up[i]
      BY <1>9
    <3> QED BY <1>1, <1>9, <1>10, <3>1 DEF Order
  <2>3. AtHub' => Sent(hub.job)' /\ last' <= hub'.job /\ \A k \in 1..Len(u) : hub'.job <= u[k].job
    <3>1. AtHub' = AtHub /\ hub' = hub /\ last' = last
      BY <1>2 DEF AtHub
    <3>2. AtHub => Sent(hub.job) /\ last <= hub.job
      BY <1>1 DEF Order
    <3>3. PICK j : j = hub.job
      OBVIOUS
    <3>4. AtHub => Sent(hub.job)'
      BY <1>7, <3>1, <3>2, <3>3
    <3>5. ASSUME AtHub, NEW k \in 1..Len(u) PROVE hub.job <= u[k].job
      BY <1>1, <1>9, <1>10, <3>5 DEF Order
    <3> QED BY <3>1, <3>2, <3>4, <3>5
  <2>4. last' = 0 \/ Sent(last)'
    <3>1. PICK j : j = last
      OBVIOUS
    <3> QED BY <1>1, <1>2, <1>7, <3>1 DEF Order
  <2> QED BY <2>1, <2>2, <2>3, <2>4 DEF Order, u
<1>12. Numbered'
  <2>1. \A k \in 1..Len(u) : Given(u[k].seq)
    BY <1>1, <1>3, <1>9 DEF Numbered, Given
  <2>2. AtHub' => Given(hub'.seq)
    BY <1>1, <1>2 DEF Numbered, AtHub
  <2> QED BY <1>1, <1>2, <2>1, <2>2 DEF Numbered, Given, u
<1>13. Steps'
  BY <1>2, <1>3 DEF Steps
<1>14. Own'
  <2> SUFFICES ASSUME ~reused'
               PROVE  /\ \A k \in 1..Len(u) : u[k].seq = n => u[k].job = work
                      /\ hub.seq # n /\ \A k \in 1..Len(down) : down[k].seq # n
                      /\ ack'.seq # n
    BY <1>2 DEF Own, u
  <2>1. \A k \in 1..Len(u) : u[k].seq = n => u[k].job = work
    BY <1>6, <1>9
  <2>2. ack'.seq # n
    BY <1>2, <1>3 DEF NoReply
  <2> QED BY <1>6, <2>1, <2>2
<1> QED BY <1>7, <1>8, <1>11, <1>12, <1>13, <1>14 DEF CallInv

LEMMA HubTakeKept ==
  ASSUME CallInv, HubTake
  PROVE  CallInv'
<1> DEFINE u == up'
<1>1. TypeInv /\ Jobs /\ Order /\ Numbered /\ Steps /\ Own
  BY DEF CallInv
<1>2. /\ ~AtHub /\ up # <<>> /\ hub' = Head(up) /\ u = Tail(up)
      /\ answer' = answer /\ queue' = queue /\ work' = work /\ tries' = tries /\ pc' = pc
      /\ txSeq' = txSeq /\ waitSeq' = waitSeq /\ reused' = reused /\ ack' = ack /\ down' = down
      /\ formed' = formed /\ last' = last /\ runs' = runs /\ resets' = resets
  BY DEF HubTake, AtHub, worker
<1>3. /\ hub' = up[1] /\ hub' \in Frame /\ 1 \in 1..Len(up) /\ u \in Seq(Frame)
      /\ Len(up) \in Nat \ {0} /\ Len(u) = Len(up) - 1
      /\ \A k \in 1..Len(u) : u[k] = up[k + 1] /\ k + 1 \in 1..Len(up) /\ 1 < k + 1
  BY <1>1, <1>2, Taken DEF TypeInv, Wires
<1> HIDE DEF u
<1>4. TypeInv'
  <2>1. Answers' /\ Queues' /\ Working' /\ Seqs'
    BY <1>1, <1>2 DEF TypeInv, Answers, Queues, Working, Seqs
  <2>2. Hubs'
    BY <1>1, <1>2, <1>3 DEF TypeInv, Hubs
  <2>3. Len(u) <= UpCap
    BY <1>1, <1>3, Bounds DEF TypeInv, Wires
  <2>4. Wires'
    BY <1>1, <1>2, <1>3, <2>3 DEF TypeInv, Wires, u
  <2> QED BY <2>1, <2>2, <2>4 DEF TypeInv
<1>5. Jobs' /\ \A j : Sent(j)' = Sent(j)
  BY <1>1, <1>2, Kept
<1>6. Order'
  <2>1. ASSUME NEW k \in 1..Len(u) PROVE Sent(up[k].job)' /\ last' <= u[k].job
    <3>1. Sent(u[k].job) /\ last <= u[k].job
      BY <1>1, <1>3 DEF Order
    <3>2. PICK j : j = u[k].job
      OBVIOUS
    <3> QED BY <1>2, <1>5, <3>1, <3>2 DEF u
  <2>2. \A i, k \in 1..Len(u) : i < k => u[i].job <= u[k].job
    <3> SUFFICES ASSUME NEW i \in 1..Len(u), NEW k \in 1..Len(u), i < k
                 PROVE  u[i].job <= u[k].job
      OBVIOUS
    <3>1. i + 1 < k + 1
      BY <1>3
    <3> QED BY <1>1, <1>3, <3>1 DEF Order
  <2>3. Sent(hub.job)' /\ last' <= hub'.job /\ \A k \in 1..Len(u) : hub'.job <= u[k].job
    <3>1. Sent(up[1].job) /\ last <= up[1].job
      BY <1>1, <1>3 DEF Order
    <3>2. PICK j : j = up[1].job
      OBVIOUS
    <3>3. Sent(hub.job)'
      BY <1>3, <1>5, <3>1, <3>2
    <3> QED BY <1>1, <1>2, <1>3, <3>1, <3>3 DEF Order
  <2>4. last' = 0 \/ Sent(last)'
    <3>1. PICK j : j = last
      OBVIOUS
    <3> QED BY <1>1, <1>2, <1>5, <3>1 DEF Order
  <2> QED BY <2>1, <2>2, <2>3, <2>4 DEF Order, u
<1>7. Numbered'
  <2>1. \A k \in 1..Len(u) : Given(u[k].seq)
    BY <1>1, <1>3 DEF Numbered
  <2>2. Given(hub'.seq)
    BY <1>1, <1>3 DEF Numbered
  <2> QED BY <1>1, <1>2, <2>1, <2>2 DEF Numbered, Given, u
<1>8. Steps' /\ Own'
  <2>1. Steps'
    BY <1>1, <1>2 DEF Steps
  <2>2. waitSeq # 0 /\ ~reused =>
          /\ \A k \in 1..Len(u) : u[k].seq = waitSeq => u[k].job = work
          /\ hub'.seq = waitSeq => hub'.job = work
    BY <1>1, <1>3 DEF Own
  <2> QED BY <1>1, <1>2, <2>1, <2>2 DEF Own, u
<1> QED BY <1>4, <1>5, <1>6, <1>7, <1>8 DEF CallInv
LEMMA ReplyKept ==
  ASSUME CallInv, AtHub, NEW nak \in BOOLEAN, Len(down) < DownCap, Reply(nak),
         hub' \in {hub, NoFrame}, UNCHANGED <<answer, queue, worker, ack, up, formed, resets>>,
         runs' \in [Job -> Nat],
         \/ nak /\ last' = last
         \/ ~nak /\ last' = hub.job /\ hub' = NoFrame
  PROVE  CallInv'
<1> DEFINE r == [seq |-> hub.seq, nak |-> nak]
           w == down'
<1>1. TypeInv /\ Jobs /\ Order /\ Numbered /\ Steps /\ Own
  BY DEF CallInv
<1>2. /\ w = Append(down, r) /\ up' = up
      /\ answer' = answer /\ queue' = queue /\ work' = work /\ tries' = tries /\ pc' = pc
      /\ txSeq' = txSeq /\ waitSeq' = waitSeq /\ reused' = reused /\ ack' = ack
      /\ formed' = formed /\ resets' = resets
  BY DEF Reply, worker
<1>3. /\ hub \in Frame /\ NoFrame \in Frame /\ r \in Replies /\ r.seq = hub.seq /\ r.nak = nak
      /\ Sent(hub.job) /\ hub.job \in Job /\ hub.job \in 0..NumJobs
  BY <1>1, Bounds DEF TypeInv, Hubs, Frame, Replies, NoFrame, Order, Sent, Job
<1>4. /\ w \in Seq(Replies) /\ Len(down) \in Nat /\ Len(w) = Len(down) + 1
      /\ \A k \in 1..Len(w) : w[k] = r \/ (k \in 1..Len(down) /\ w[k] = down[k])
  <2>1. down \in Seq(Replies)
    BY <1>1 DEF TypeInv, Wires
  <2> QED BY <1>2, <1>3, <2>1, Appended
<1> HIDE DEF w
<1>5. TypeInv'
  <2>1. Answers' /\ Queues' /\ Working' /\ Seqs'
    BY <1>1, <1>2 DEF TypeInv, Answers, Queues, Working, Seqs
  <2>2. last' \in 0..NumJobs /\ hub' \in Frame
    BY <1>1, <1>3 DEF TypeInv, Hubs
  <2>3. Hubs'
    BY <1>1, <1>2, <2>2 DEF TypeInv, Hubs
  <2>4. Len(w) <= DownCap
    BY <1>4, Bounds
  <2>5. Wires'
    BY <1>1, <1>2, <1>4, <2>4 DEF TypeInv, Wires, w
  <2> QED BY <2>1, <2>3, <2>5 DEF TypeInv
<1>6. Jobs' /\ \A j : Sent(j)' = Sent(j)
  BY <1>1, <1>2, Kept
<1>7. /\ last' <= hub.job
      /\ \A k \in 1..Len(up) : last' <= up[k].job
      /\ last' = 0 \/ Sent(last')
  <2>1. CASE last' = last
    BY <1>1, <2>1 DEF Order
  <2>2. CASE last' = hub.job
    BY <1>1, <1>3, <2>2 DEF Order, Job
  <2> QED BY <2>1, <2>2
<1>8. Order'
  <2>1. ASSUME NEW k \in 1..Len(up) PROVE Sent(up[k].job)' /\ last' <= up'[k].job
    <3>1. PICK j : j = up[k].job
      OBVIOUS
    <3> QED BY <1>1, <1>2, <1>6, <1>7, <3>1 DEF Order
  <2>2. AtHub' => Sent(hub.job)' /\ last' <= hub'.job /\ \A k \in 1..Len(up) : hub'.job <= up[k].job
    <3>1. PICK j : j = hub.job
      OBVIOUS
    <3>2. AtHub' => hub' = hub
      BY DEF AtHub
    <3>3. AtHub' => Sent(hub.job)'
      BY <1>3, <1>6, <3>1, <3>2
    <3> QED BY <1>1, <1>7, <3>2, <3>3 DEF Order
  <2>3. last' = 0 \/ Sent(last)'
    <3>1. PICK j : j = last'
      OBVIOUS
    <3> QED BY <1>6, <1>7, <3>1
  <2> QED BY <1>1, <1>2, <2>1, <2>2, <2>3 DEF Order
<1>9. Numbered'
  <2>1. \A k \in 1..Len(w) : Given(w[k].seq)
    BY <1>1, <1>3, <1>4 DEF Numbered
  <2>2. AtHub' => Given(hub'.seq)
    BY <1>1 DEF Numbered, AtHub
  <2> QED BY <1>1, <1>2, <2>1, <2>2 DEF Numbered, Given, w
<1>10. Steps'
  BY <1>1, <1>2 DEF Steps
<1>11. ASSUME waitSeq # 0, last = work PROVE last' = work
  <2>1. work # 0 /\ hub.job <= work /\ last <= hub.job /\ work \in Nat /\ hub.job \in Nat
    BY <1>1, <1>3, <1>11, JobsTyped DEF Steps, Order, Sent
  <2> QED BY <1>11, <2>1
<1>12. Own'
  <2> SUFFICES ASSUME waitSeq # 0, ~reused
               PROVE  /\ \A i \in 1..Len(up) : up[i].seq = waitSeq => up[i].job = work
                      /\ AtHub' /\ hub'.seq = waitSeq => hub'.job = work
                      /\ \A i \in 1..Len(w) : w[i].seq = waitSeq /\ ~w[i].nak => last' = work
                      /\ ack.seq = waitSeq /\ ~ack.nak => last' = work
    BY <1>2 DEF Own, w
  <2>1. \A i \in 1..Len(up) : up[i].seq = waitSeq => up[i].job = work
    BY <1>1 DEF Own
  <2>2. AtHub' /\ hub'.seq = waitSeq => hub'.job = work
    BY <1>1 DEF Own, AtHub
  <2>3. \A i \in 1..Len(w) : w[i].seq = waitSeq /\ ~w[i].nak => last' = work
    BY <1>1, <1>3, <1>4, <1>11 DEF Own
  <2>4. ack.seq = waitSeq /\ ~ack.nak => last' = work
    BY <1>1, <1>11 DEF Own
  <2> QED BY <2>1, <2>2, <2>3, <2>4
<1> QED BY <1>5, <1>6, <1>8, <1>9, <1>10, <1>12 DEF CallInv

LEMMA HubKept ==
  ASSUME CallInv, HubRun \/ HubRefuse \/ HubInitFails
  PROVE  CallInv' /\ (HubRun => Service!Run(hub.job) /\ hub.job \in Job)
<1>1. /\ TypeInv /\ Order /\ AtHub /\ Len(down) < DownCap /\ runs \in [Job -> Nat]
      /\ Sent(hub.job) /\ hub.job \in Job /\ last <= hub.job
  BY DEF CallInv, Order, HubRun, HubRefuse, HubInitFails, AtHub, TypeInv, Hubs, Sent
<1>2. CASE HubRun
  <2>1. /\ Reply(FALSE) /\ hub' = NoFrame /\ last' = hub.job
        /\ UNCHANGED <<answer, queue, worker, ack, up, formed, resets>>
        /\ runs' = [runs EXCEPT ![hub.job] = @ + 1]
    BY <1>2 DEF HubRun
  <2>2. runs' \in [Job -> Nat]
    BY <1>1, <2>1
  <2>3. CallInv'
    BY <1>1, <2>1, <2>2, ReplyKept
  <2>4. Service!Run(hub.job)
    BY <1>1, <2>1 DEF Service!Run, Sent
  <2> QED BY <1>1, <2>3, <2>4
<1>3. CASE ~HubRun
  <2>1. /\ Reply(TRUE) /\ hub' \in {hub, NoFrame} /\ last' = last /\ runs' = runs
        /\ UNCHANGED <<answer, queue, worker, ack, up, formed, resets>>
    BY <1>3 DEF HubRefuse, HubInitFails, hubs
  <2> QED BY <1>1, <1>3, <2>1, ReplyKept
<1> QED BY <1>2, <1>3

(* Steps that only take from the wires and the hub.                        *)
LEMMA Lessened ==
  ASSUME CallInv, (Answers /\ Queues /\ Working /\ Seqs /\ Jobs /\ Steps)',
         \A j : Sent(j) => Sent(j)', reused' = reused,
         waitSeq' # 0 => waitSeq' = waitSeq /\ work' = work,
         ack' = ack \/ ack' = NoReply \/ (down # <<>> /\ ack' = Head(down)),
         Shrunk(up', up), Shrunk(down', down), hub' \in {hub, NoFrame}, last' = last,
         formed' \in BOOLEAN, runs' = runs, resets' \in 0..MaxResets
  PROVE  CallInv'
<1>1. TypeInv /\ Wires /\ Order /\ Numbered /\ Own
  BY DEF CallInv, TypeInv
<1>2. Wires' /\ Order' /\ Numbered'
  BY <1>1, WiresKept
<1>3. Own'
  BY <1>1, OwnKept
<1>4. Hubs'
  <2>1. NoFrame \in Frame
    BY Bounds DEF NoFrame, Frame
  <2> QED BY <1>1, <2>1 DEF TypeInv, Hubs
<1> QED BY <1>2, <1>3, <1>4 DEF CallInv, TypeInv

LEMMA EnqueueKept ==
  ASSUME CallInv, Enqueue
  PROVE  CallInv' /\ \E j \in Job : Service!Accept(j)
<1>1. TypeInv /\ Jobs /\ Steps /\ Working /\ Seqs /\ Hubs
  BY DEF CallInv, TypeInv
<1>2. UNCHANGED <<worker, ack, wires, hubs>>
  BY DEF Enqueue
<1>3. /\ Answers' /\ Queues' /\ Jobs' /\ \A j : Sent(j) => Sent(j)'
      /\ \A k : Waiting(k)' => Waiting(k)
      /\ \E j \in Job : Service!Accept(j)
  BY <1>1, EnqueueJobs
<1>5. Working' /\ Seqs' /\ Steps'
  BY <1>1, <1>2 DEF Working, Seqs, Steps, worker
<1>6. CallInv'
  BY <1>1, <1>2, <1>3, <1>5, Lessened DEF worker, wires, hubs, Hubs, Shrunk
<1> QED BY <1>3, <1>6

LEMMA TakeKept ==
  ASSUME CallInv, Take
  PROVE  CallInv'
<1>1. TypeInv /\ Jobs /\ Steps /\ Seqs /\ Answers /\ Hubs
  BY DEF CallInv, TypeInv
<1>2. /\ tries' = 0 /\ pc = "rest" /\ pc' = "send"
      /\ UNCHANGED <<answer, txSeq, waitSeq, reused, ack, wires, hubs>>
  BY DEF Take
<1>3. /\ Queues' /\ Working' /\ Jobs' /\ \A j : Sent(j) => Sent(j)'
      /\ \A k : Waiting(k)' => Waiting(k)
      /\ work = 0 /\ work' \in Job /\ Waiting(work')
  BY <1>1, TakeJobs
<1>5. Answers' /\ Seqs'
  BY <1>1, <1>2 DEF Answers, Seqs
<1>6. waitSeq = 0 /\ work' # 0
  BY <1>1, <1>3, JobsTyped DEF Steps
<1>7. Steps'
  BY <1>1, <1>2, <1>6, Bounds DEF Steps
<1> QED BY <1>1, <1>2, <1>3, <1>5, <1>6, <1>7, Lessened DEF wires, hubs, Hubs, Shrunk
(* A job is answered: by the reply to its last try, or for want of one.    *)
LEMMA ReportKept ==
  ASSUME CallInv, work # 0, NEW a \in {"ok", "refused", "silent"}, Report(a), ack' = NoReply,
         UNCHANGED <<queue, tries, txSeq, reused, wires, hubs>>,
         a = "ok" => last = work \/ reused
  PROVE  CallInv' /\ Service!Answer(work) /\ work \in Job
<1>1. TypeInv /\ Jobs /\ Steps /\ Seqs /\ Hubs
  BY DEF CallInv, TypeInv
<1>2. work' = 0 /\ waitSeq' = 0 /\ pc' = "rest" /\ answer' = [answer EXCEPT ![work] = a]
  BY DEF Report
<1>3. /\ Answers' /\ Queues' /\ Working' /\ Jobs' /\ \A j : Sent(j) => Sent(j)'
      /\ \A k : Waiting(k)' => Waiting(k)
  BY <1>1, ReportJobs
<1>5. Seqs'
  <2>1. NoReply \in Replies /\ 0 \in 0..SeqMod - 1
    BY Bounds DEF NoReply, Replies
  <2> QED BY <1>1, <1>2, <2>1 DEF Seqs
<1>6. Steps'
  BY <1>2 DEF Steps
<1>7. CallInv'
  BY <1>1, <1>2, <1>3, <1>5, <1>6, Lessened DEF wires, hubs, Hubs, Shrunk
<1>8. Service!Answer(work) /\ work \in Job
  <2>1. work \in Job /\ Service!Turn(work) /\ answer[work] = "open"
    BY <1>1, WorkFirst DEF Jobs
  <2> QED BY <1>2, <2>1 DEF Service!Answer, hubs
<1> QED BY <1>7, <1>8

(* Steps at which no job changes.                                          *)
LEMMA Unmoved ==
  ASSUME CallInv, Steps', Seqs',
         UNCHANGED <<answer, queue, work, tries, txSeq, waitSeq, reused>>, pc' \in {"rest", "send", "wait"},
         ack' = ack \/ (down # <<>> /\ ack' = Head(down)),
         Shrunk(up', up), Shrunk(down', down), hub' \in {hub, NoFrame}, last' = last,
         formed' \in BOOLEAN, runs' = runs, resets' \in 0..MaxResets
  PROVE  CallInv'
<1>1. TypeInv /\ Jobs /\ Answers /\ Queues /\ Working
  BY DEF CallInv, TypeInv
<1>2. Answers' /\ Queues' /\ Working'
  BY <1>1 DEF Answers, Queues, Working
<1>3. Jobs' /\ \A j : Sent(j) => Sent(j)'
  BY <1>1, Kept
<1> QED BY <1>2, <1>3, Lessened

LEMMA WorkerKept ==
  ASSUME CallInv, Answered \/ Timeout
  PROVE  /\ CallInv'
         /\ UNCHANGED <<answer, last>> \/ \E j \in Job : Service!Answer(j)
<1>1. Steps /\ Own /\ Seqs /\ Hubs /\ pc = "wait" /\ waitSeq # 0 /\ work # 0
  BY DEF CallInv, TypeInv, Steps, Answered, Timeout
<1>2. CASE Answered
  <2> DEFINE a == IF ack.nak THEN "refused" ELSE "ok"
  <2>1. /\ Report(a) /\ ack' = NoReply /\ a \in {"ok", "refused", "silent"}
        /\ ack.seq = waitSeq /\ UNCHANGED <<queue, tries, txSeq, reused, wires, hubs>>
    BY <1>2 DEF Answered
  <2>2. a = "ok" => last = work \/ reused
    BY <1>1, <2>1 DEF Own
  <2> QED BY <1>1, <2>1, <2>2, ReportKept
<1>3. CASE Timeout /\ tries < MaxTries
  <2>1. /\ pc' = "send" /\ tries < MaxTries
        /\ UNCHANGED <<answer, work, waitSeq, reused, queue, tries, txSeq, ack, wires, hubs>>
    BY <1>3 DEF Timeout
  <2>2. Steps' /\ Seqs'
    BY <1>1, <2>1 DEF Steps, Seqs
  <2>3. CallInv'
    BY <1>1, <2>1, <2>2, Unmoved DEF wires, hubs, Hubs, Shrunk
  <2> QED BY <2>1, <2>3 DEF hubs
<1>4. CASE Timeout /\ ~(tries < MaxTries)
  <2>1. Report("silent") /\ ack.seq = 0 /\ UNCHANGED <<queue, tries, txSeq, reused, ack, wires, hubs>>
    BY <1>4 DEF Timeout
  <2>2. ack' = NoReply
    BY <1>1, <2>1 DEF Steps
  <2> QED BY <1>1, <2>1, <2>2, ReportKept
<1> QED BY <1>2, <1>3, <1>4

LEMMA LinkKept ==
  ASSUME CallInv, NoteAck \/ Form \/ HubReset \/ Lose \/ UNCHANGED vars
  PROVE  CallInv' /\ UNCHANGED <<answer, last>>
<1>1. TypeInv /\ Numbered /\ Steps /\ Seqs /\ Hubs /\ Wires
  BY DEF CallInv, TypeInv
<1>2. CASE NoteAck
  <2>1. /\ down # <<>> /\ down' = Tail(down)
        /\ ack' = (IF Head(down).seq = waitSeq THEN Head(down) ELSE ack)
        /\ UNCHANGED <<answer, queue, worker, up, hubs>>
    BY <1>2 DEF NoteAck
  <2>2. Head(down) \in Replies /\ Head(down) = down[1] /\ 1 \in 1..Len(down)
    BY <1>1, <2>1, Taken DEF Wires
  <2>3. Head(down).seq # 0
    <3>1. Given(down[1].seq)
      BY <1>1, <2>2 DEF Numbered
    <3>2. down[1].seq \in 1..SeqMod - 1
      BY <3>1 DEF Given
    <3> QED BY <2>2, <3>2, Bounds
  <2>4. Steps' /\ Seqs'
    BY <1>1, <2>1, <2>2, <2>3 DEF Steps, Seqs, worker
  <2> QED BY <1>1, <2>1, <2>4, Unmoved DEF worker, hubs, Hubs, Shrunk, Steps, TypeInv, Working
<1>3. CASE Form \/ HubReset \/ Lose \/ UNCHANGED vars
  <2>1. /\ UNCHANGED <<answer, queue, worker, ack, last, runs>>
        /\ Shrunk(up', up) /\ Shrunk(down', down) /\ hub' \in {hub, NoFrame}
    BY <1>3 DEF Form, HubReset, Lose, Shrunk, vars, wires, hubs
  <2>2. formed' \in BOOLEAN
    BY <1>1, <1>3 DEF Form, HubReset, Lose, Hubs, vars, hubs
  <2>3. resets' = resets \/ (resets < MaxResets /\ resets' = resets + 1)
    BY <1>3 DEF Form, HubReset, Lose, vars, hubs
  <2>4. resets' \in 0..MaxResets
    BY <1>1, <2>3, Bounds DEF Hubs
  <2>5. Steps' /\ Seqs' /\ pc' \in {"rest", "send", "wait"}
    BY <1>1, <2>1 DEF Steps, Seqs, worker, TypeInv, Working
  <2> QED BY <2>1, <2>2, <2>4, <2>5, Unmoved DEF worker
<1> QED BY <1>2, <1>3

LEMMA CallStep == CallInv /\ [Next]_vars => CallInv' /\ [Service!Next]_<<answer, last>>
<1> SUFFICES ASSUME CallInv, [Next]_vars PROVE CallInv' /\ [Service!Next]_<<answer, last>>
  OBVIOUS
<1>1. Service!Job = Job
  BY DEF Job, Service!Job
<1>2. CASE Enqueue
  BY <1>1, <1>2, EnqueueKept DEF Service!Next
<1>3. CASE Take
  BY <1>3, TakeKept DEF Take, hubs
<1>4. CASE Send
  BY <1>4, SendKept DEF Send, hubs
<1>5. CASE Answered \/ Timeout
  BY <1>1, <1>5, WorkerKept DEF Service!Next
<1>6. CASE HubTake
  BY <1>6, HubTakeKept DEF HubTake
<1>7. CASE HubRun
  BY <1>1, <1>7, HubKept DEF Service!Next
<1>8. CASE HubRefuse \/ HubInitFails
  BY <1>8, HubKept DEF HubRefuse, HubInitFails, hubs
<1>9. CASE NoteAck \/ Form \/ HubReset \/ Lose \/ UNCHANGED vars
  BY <1>9, LinkKept
<1> QED BY <1>2, <1>3, <1>4, <1>5, <1>6, <1>7, <1>8, <1>9 DEF Next, Worker

LEMMA CallInvariant == Spec => []CallInv
<1>1. Init => CallInv
  BY CallInit
<1>2. CallInv /\ [Next]_vars => CallInv'
  BY CallStep
<1> QED BY <1>1, <1>2, PTL DEF Spec

(* Every variable of the link keeps its range: no command is tried more    *)
(* often than CMD_MAX_RETRIES and no buffer outgrows its capacity.         *)
THEOREM TypeCorrect == Spec => []TypeOK
<1>1. CallInv => TypeOK
  BY TypeInvTyped DEF CallInv
<1> QED BY <1>1, CallInvariant, PTL

(* Commands are carried out in the order in which they were accepted, none *)
(* after its successor, and one that is reported done is the last that     *)
(* ran, unless the number of its try was still under way with an earlier   *)
(* one: whatever the UART loses, whenever the hub restarts and however     *)
(* many commands there are.                                                *)
THEOREM KeepsOrder == Spec => Service!Safety
<1>1. Init => Service!Init
  BY CallInit
<1>2. CallInv /\ [Next]_vars => [Service!Next]_<<answer, last>>
  BY CallStep
<1> QED BY <1>1, <1>2, CallInvariant, PTL DEF Spec, Service!Safety
-----------------------------------------------------------------------------
(* How many frames of a job are under way.                                 *)
Frames(s, j) == {i \in 1..Len(s) : s[i].job = j}
InHub(j) == IF hub.job = j THEN 1 ELSE 0

LEMMA FrameCount ==
  ASSUME NEW s \in Seq(Frame), NEW j
  PROVE  IsFiniteSet(Frames(s, j)) /\ Cardinality(Frames(s, j)) \in Nat
<1>1. IsFiniteSet(1..Len(s))
  BY FS_Interval
<1>2. Frames(s, j) \in SUBSET (1..Len(s))
  BY DEF Frames
<1>3. IsFiniteSet(Frames(s, j))
  BY <1>1, <1>2, FS_Subset
<1> QED BY <1>3, FS_CardinalityType

LEMMA FramesAppended ==
  ASSUME NEW s \in Seq(Frame), NEW f \in Frame, NEW j
  PROVE  Cardinality(Frames(Append(s, f), j)) =
           Cardinality(Frames(s, j)) + (IF f.job = j THEN 1 ELSE 0)
<1> DEFINE a == Append(s, f)
           n == Len(s) + 1
<1>1. /\ Len(s) \in Nat /\ n \in Nat /\ Len(a) = n /\ a[n] = f
      /\ \A k \in 1..Len(s) : a[k] = s[k] /\ k # n
  BY Appended
<1>2. IsFiniteSet(Frames(s, j)) /\ n \notin Frames(s, j)
  BY <1>1, FrameCount DEF Frames
<1>3. Frames(a, j) = IF f.job = j THEN Frames(s, j) \cup {n} ELSE Frames(s, j)
  <2> HIDE DEF a
  <2>1. Frames(a, j) = {i \in 1..Len(s) : s[i].job = j} \cup {i \in {n} : f.job = j}
    BY <1>1 DEF Frames
  <2> QED BY <2>1 DEF Frames
<1>4. Cardinality(Frames(s, j) \cup {n}) = Cardinality(Frames(s, j)) + 1
  BY <1>2, FS_AddElement
<1> QED BY <1>3, <1>4, FrameCount

LEMMA FramesTaken ==
  ASSUME NEW s \in Seq(Frame), s # <<>>, NEW j
  PROVE  Cardinality(Frames(Tail(s), j)) + (IF Head(s).job = j THEN 1 ELSE 0)
           <= Cardinality(Frames(s, j))
<1> DEFINE t == Tail(s)
           S == Frames(t, j)
           T == Frames(s, j) \ {1}
           g == [k \in S |-> k + 1]
<1>1. /\ t \in Seq(Frame) /\ Head(s) = s[1] /\ 1 \in 1..Len(s)
      /\ \A k \in 1..Len(t) : t[k] = s[k + 1] /\ k + 1 \in 1..Len(s) /\ 1 < k + 1
  BY Taken
<1>2. IsFiniteSet(Frames(s, j)) /\ Cardinality(Frames(s, j)) \in Nat /\ Cardinality(S) \in Nat
  BY <1>1, FrameCount
<1>3. /\ IsFiniteSet(T)
      /\ Cardinality(T) = IF 1 \in Frames(s, j) THEN Cardinality(Frames(s, j)) - 1
                          ELSE Cardinality(Frames(s, j))
  BY <1>2, FS_RemoveElement
<1>4. 1 \in Frames(s, j) <=> Head(s).job = j
  BY <1>1 DEF Frames
<1>5. g \in Injection(S, T)
  <2>1. \A k \in S : k \in Int /\ k + 1 \in T
    <3> HIDE DEF t
    <3> QED BY <1>1 DEF Frames
  <2> HIDE DEF S, T
  <2>2. g \in [S -> T] /\ \A a, b \in S : g[a] = g[b] => a = b
    BY <2>1
  <2>3. IsInjective(g)
    BY <2>2 DEF IsInjective
  <2> QED BY <2>2, <2>3 DEF Injection
<1>6. Cardinality(S) <= Cardinality(T)
  BY <1>3, <1>5, FS_Injection
<1> HIDE DEF S, T
<1>7. Cardinality(S) + (IF Head(s).job = j THEN 1 ELSE 0) <= Cardinality(Frames(s, j))
  BY <1>2, <1>3, <1>4, <1>6
<1> QED BY <1>7 DEF S
(* What a job has cost the hub and may still cost it: no more than its     *)
(* tries, and nothing before the worker took it.                           *)
Load(j) == runs[j] + Cardinality(Frames(up, j)) + InHub(j)
Counted(j) ==
  /\ Load(j) <= MaxTries
  /\ work = j => Load(j) <= tries
  /\ Waiting(j) => Load(j) = 0
CountInv == \A j \in Job : Counted(j)

LEMMA LoadTyped ==
  ASSUME TypeInv, NEW j \in Job
  PROVE  /\ Load(j) \in Nat /\ runs[j] \in Nat
         /\ Cardinality(Frames(up, j)) \in Nat /\ InHub(j) \in Nat
<1>1. runs[j] \in Nat /\ Cardinality(Frames(up, j)) \in Nat
  BY FrameCount DEF TypeInv, Hubs, Wires
<1> QED BY <1>1 DEF Load, InHub

LEMMA LoadShrinks ==
  ASSUME TypeInv, TypeInv', NEW j \in Job, runs' = runs, Shrunk(up', up), hub' \in {hub, NoFrame}
  PROVE  Load(j)' <= Load(j)
<1> DEFINE c == Cardinality(Frames(up, j))
           d == Cardinality(Frames(up', j))
<1>1. c \in Nat /\ d \in Nat /\ runs[j] \in Nat
  BY FrameCount DEF TypeInv, Hubs, Wires
<1>2. d <= c
  <2>1. CASE up' = up
    BY <1>1, <2>1
  <2>2. CASE up' = <<>>
    <3>1. Frames(up', j) = {}
      BY <2>2 DEF Frames
    <3> QED BY <1>1, <3>1, FS_EmptySet
  <2>3. CASE up # <<>> /\ up' = Tail(up)
    <3>1. d + (IF Head(up).job = j THEN 1 ELSE 0) <= c
      BY <2>3, FramesTaken DEF TypeInv, Wires
    <3> HIDE DEF c, d
    <3> QED BY <1>1, <3>1
  <2> QED BY <2>1, <2>2, <2>3 DEF Shrunk
<1>3. InHub(j)' <= InHub(j) /\ InHub(j) \in Nat /\ InHub(j)' \in Nat
  BY Bounds DEF InHub, NoFrame, Job
<1>4. Load(j) = runs[j] + c + InHub(j) /\ Load(j)' = runs[j] + d + InHub(j)'
  BY DEF Load
<1> HIDE DEF c, d
<1> QED BY <1>1, <1>2, <1>3, <1>4

LEMMA CountKept ==
  ASSUME TypeInv, TypeInv', NEW j \in Job, Counted(j), Load(j)' <= Load(j),
         work' = j => (work = j /\ tries' = tries) \/ Waiting(j),
         Waiting(j)' => Waiting(j)
  PROVE  Counted(j)'
<1>1. Load(j) \in Nat /\ Load(j)' \in Nat
  <2>1. Load(j) \in Nat
    BY LoadTyped
  <2>2. runs'[j] \in Nat /\ Cardinality(Frames(up', j)) \in Nat
    BY FrameCount DEF TypeInv, Hubs, Wires
  <2> QED BY <2>1, <2>2 DEF Load, InHub
<1>2. tries \in Nat /\ tries' \in Nat /\ MaxTries \in Nat
  BY Bounds DEF TypeInv, Working
<1>3. Load(j)' <= MaxTries
  BY <1>1, <1>2 DEF Counted
<1>4. Waiting(j) => Load(j)' = 0
  BY <1>1 DEF Counted
<1>5. work' = j => Load(j)' <= tries'
  BY <1>1, <1>2, <1>4 DEF Counted
<1> QED BY <1>3, <1>4, <1>5 DEF Counted

LEMMA CountInit == Init => CountInv
<1> SUFFICES ASSUME Init, NEW j \in Job PROVE Counted(j)
  BY DEF CountInv
<1>1. Frames(up, j) = {} /\ runs[j] = 0 /\ InHub(j) = 0
  BY Bounds DEF Init, Frames, InHub, NoFrame, Job
<1>2. Load(j) = 0
  BY <1>1, FS_EmptySet DEF Load
<1> QED BY <1>2, Bounds DEF Init, Counted

LEMMA CountStep == CallInv /\ CallInv' /\ CountInv /\ [Next]_vars => CountInv'
<1> SUFFICES ASSUME CallInv, CallInv', CountInv, [Next]_vars, NEW j \in Job PROVE Counted(j)'
  BY DEF CountInv
<1>1. TypeInv /\ TypeInv' /\ Jobs /\ Steps /\ Order /\ Counted(j) /\ work \in 0..NumJobs /\ j # 0
  BY JobsTyped DEF CallInv, CountInv
<1>2. CASE Enqueue
  <2>1. /\ Load(j)' <= Load(j) /\ work' = work /\ tries' = tries
    BY <1>1, <1>2, LoadShrinks DEF Enqueue, wires, hubs, worker, Shrunk
  <2> QED BY <1>1, <1>2, <2>1, EnqueueJobs, CountKept
<1>3. CASE Take
  <2>1. Load(j)' <= Load(j)
    BY <1>1, <1>3, LoadShrinks DEF Take, wires, hubs, Shrunk
  <2> QED BY <1>1, <1>3, <2>1, TakeJobs, CountKept
<1>4. CASE Send
  <2> DEFINE f == [seq |-> NextSeq, job |-> work]
             c == Cardinality(Frames(up, j))
             d == Cardinality(Frames(up', j))
  <2>1. /\ work # 0 /\ work' = work /\ tries < MaxTries /\ tries' = tries + 1
        /\ answer' = answer /\ queue' = queue /\ hub' = hub /\ runs' = runs
        /\ up' = IF Len(up) < UpCap THEN Append(up, f) ELSE up
    BY <1>1, <1>4 DEF Send, Steps, hubs
  <2>2. NextSeq \in 1..SeqMod - 1 /\ SeqMod \in Nat /\ tries \in Nat /\ MaxTries \in Nat
    BY <1>1, NextTyped, Bounds DEF TypeInv, Working
  <2>3. f \in Frame /\ f.job = work
    BY <1>1, <2>2 DEF Frame
  <2>4. /\ c \in Nat /\ d \in Nat /\ runs[j] \in Nat /\ InHub(j) \in Nat
        /\ d <= c + (IF work = j THEN 1 ELSE 0)
    <3>1. up \in Seq(Frame) /\ up' \in Seq(Frame)
      BY <1>1 DEF TypeInv, Wires
    <3>2. c \in Nat /\ d \in Nat
      BY <3>1, FrameCount
    <3>3. d = c + (IF work = j THEN 1 ELSE 0) \/ d = c
      <4>1. CASE Len(up) < UpCap
        BY <2>1, <2>3, <3>1, <4>1, FramesAppended
      <4>2. CASE ~(Len(up) < UpCap)
        BY <2>1, <4>2
      <4> QED BY <4>1, <4>2
    <3> HIDE DEF c, d
    <3> QED BY <1>1, <3>2, <3>3, LoadTyped
  <2>5. Load(j) = runs[j] + c + InHub(j) /\ Load(j)' = runs[j] + d + InHub(j)
    BY <2>1 DEF Load, InHub
  <2> HIDE DEF c, d
  <2>6. CASE work = j
    <3>1. Load(j) <= tries /\ ~Waiting(j)
      <4>1. ~(j < j)
        BY <1>1, JobsTyped
      <4>2. \A k : Waiting(k) => work < k
        BY <1>1, <2>1, WorkFirst
      <4>3. ~Waiting(j)
        BY <2>6, <4>1, <4>2
      <4> QED BY <1>1, <2>6, <4>3 DEF Counted
    <3>2. Load(j)' <= tries + 1
      BY <2>2, <2>4, <2>5, <2>6, <3>1
    <3>3. Load(j)' <= MaxTries
      BY <2>1, <2>2, <2>4, <2>5, <3>2
    <3>4. ~Waiting(j)'
      BY <2>1, <3>1, Kept
    <3> QED BY <2>1, <3>2, <3>3, <3>4 DEF Counted
  <2>7. CASE work # j
    <3>1. Load(j)' <= Load(j)
      BY <2>4, <2>5, <2>7
    <3> QED BY <1>1, <2>1, <2>7, <3>1, Kept, CountKept
  <2> QED BY <2>6, <2>7
<1>5. CASE Answered \/ Timeout
  <2>1. Load(j)' <= Load(j)
    BY <1>1, <1>5, LoadShrinks DEF Answered, Timeout, wires, hubs, Shrunk
  <2>2. /\ work' = j => work = j /\ tries' = tries
        /\ Waiting(j)' => Waiting(j)
    <3>1. CASE \E a \in {"ok", "refused", "silent"} : Report(a)
      <4>1. work # 0 /\ queue' = queue /\ tries' = tries
        BY <1>1, <1>5 DEF Answered, Timeout, Steps
      <4> QED BY <1>1, <3>1, <4>1, ReportJobs DEF Report
    <3>2. CASE UNCHANGED <<answer, queue, work, tries>>
      BY <3>2, Kept
    <3> QED BY <1>5, <3>1, <3>2 DEF Answered, Timeout
  <2> QED BY <1>1, <2>1, <2>2, CountKept
<1>6. CASE HubTake
  <2> DEFINE c == Cardinality(Frames(up, j))
             d == Cardinality(Frames(up', j))
  <2>1. /\ up # <<>> /\ up' = Tail(up) /\ hub = NoFrame /\ hub' = Head(up)
        /\ answer' = answer /\ queue' = queue /\ runs' = runs /\ work' = work /\ tries' = tries
    BY <1>6 DEF HubTake, worker
  <2>2. /\ c \in Nat /\ d \in Nat /\ runs[j] \in Nat
        /\ d + (IF Head(up).job = j THEN 1 ELSE 0) <= c
    BY <1>1, <2>1, FrameCount, FramesTaken, LoadTyped DEF TypeInv, Wires
  <2>3. InHub(j) = 0 /\ InHub(j)' = IF Head(up).job = j THEN 1 ELSE 0
    BY <1>1, <2>1 DEF InHub, NoFrame
  <2>4. Load(j) = runs[j] + c + InHub(j) /\ Load(j)' = runs[j] + d + InHub(j)'
    BY <2>1 DEF Load
  <2> HIDE DEF c, d
  <2>5. Load(j)' <= Load(j)
    BY <2>2, <2>3, <2>4
  <2> QED BY <1>1, <2>1, <2>5, Kept, CountKept
<1>7. CASE HubRun
  <2> DEFINE c == Cardinality(Frames(up, j))
  <2>1. /\ hub # NoFrame /\ hub' = NoFrame /\ up' = up /\ runs' = [runs EXCEPT ![hub.job] = @ + 1]
        /\ answer' = answer /\ queue' = queue /\ work' = work /\ tries' = tries
    BY <1>7 DEF HubRun, worker
  <2>2. hub.job \in Job /\ runs \in [Job -> Nat] /\ c \in Nat /\ runs[j] \in Nat
    BY <1>1, <2>1, LoadTyped DEF Order, AtHub, Sent, TypeInv, Hubs
  <2>3. runs'[j] = runs[j] + InHub(j) /\ InHub(j)' = 0 /\ InHub(j) \in Nat
    BY <1>1, <2>1, <2>2 DEF InHub, NoFrame
  <2>4. Load(j) = runs[j] + c + InHub(j) /\ Load(j)' = runs'[j] + c + InHub(j)'
    BY <2>1 DEF Load
  <2> HIDE DEF c
  <2>5. Load(j)' <= Load(j)
    BY <2>2, <2>3, <2>4
  <2> QED BY <1>1, <2>1, <2>5, Kept, CountKept
<1>8. CASE HubRefuse \/ HubInitFails \/ NoteAck \/ Form \/ HubReset \/ Lose \/ UNCHANGED vars
  <2>1. /\ runs' = runs /\ hub' \in {hub, NoFrame} /\ Shrunk(up', up)
        /\ answer' = answer /\ queue' = queue /\ work' = work /\ tries' = tries
    BY <1>8 DEF HubRefuse, HubInitFails, NoteAck, Form, HubReset, Lose, vars, wires, hubs, worker,
                Shrunk
  <2> QED BY <1>1, <2>1, LoadShrinks, Kept, CountKept
<1> QED BY <1>2, <1>3, <1>4, <1>5, <1>6, <1>7, <1>8 DEF Next, Worker

(* A device is driven at most once for every try of a command, although    *)
(* every reply may be lost and a try may run after the next one was sent.  *)
THEOREM RunsOncePerTry == Spec => []RunsPerTry
<1>1. CallInv /\ CountInv => RunsPerTry
  <2> SUFFICES ASSUME CallInv, CountInv, NEW j \in Job PROVE runs[j] <= MaxTries
    BY DEF RunsPerTry
  <2>1. Load(j) <= MaxTries /\ MaxTries \in Nat /\ TypeInv
    BY Bounds DEF CountInv, Counted, CallInv
  <2>2. Load(j) = runs[j] + Cardinality(Frames(up, j)) + InHub(j)
    BY DEF Load
  <2> QED BY <2>1, <2>2, LoadTyped
<1>2. Spec => []CountInv
  <2>1. Init => CountInv
    BY CountInit
  <2>2. CallInv /\ CallInv' /\ CountInv /\ [Next]_vars => CountInv'
    BY CountStep
  <2> QED BY <2>1, <2>2, CallInvariant, PTL DEF Spec
<1> QED BY <1>1, <1>2, CallInvariant, PTL
=============================================================================
