------------------------ MODULE VideoStreamerProofs ------------------------
(***************************************************************************)
(* What the video streamer promises, for any number of offer threads and   *)
(* camera frames, whatever is posted, given up or left behind.             *)
(***************************************************************************)
EXTENDS VideoStreamer, TLAPS

Busy(t) == pc[t] \notin {"idle", "done"}

\* t's webrtcbin has been linked, and t has not failed since.
Past(t) == Linked(t) \/ (pc[t] = "cleanup" /\ result[t] # Failed)

\* The offers t's answer may be to.
Own(t) == {offer[t]} \cup IF t \in crossed THEN {offer[u] : u \in crossed} ELSE {}

\* A thread has one job scheduled at most.  It is the one the thread waits for,
\* or the thread has given up.
JobsMatch ==
    /\ \A i \in 1..Len(jobs) :
          /\ jobs[i].by = Ros <=> jobs[i].do \in {"build", "push"}
          /\ jobs[i].by # Ros =>
                /\ pc[jobs[i].by] \notin {"idle", "begin"}
                /\ pc[jobs[i].by] \in JobNames =>
                      jobs[i].by \in waiting /\ jobs[i].do = pc[jobs[i].by]
                /\ pc[jobs[i].by] \in {"cleanup", "done"} => result[jobs[i].by] = Failed
    /\ \A i, j \in 1..Len(jobs) : jobs[i].by = jobs[j].by /\ jobs[i].by # Ros => i = j
    /\ Ros \in waiting => ros \in {"building", "pushing"}
    /\ \A t \in waiting \ {Ros} : pc[t] \in JobNames

\* A thread that is not crossed is the only one at work, and the frames are
\* held back for it.
Alone ==
    /\ \A t \in crossed : pc[t] # "idle"
    /\ \A t, u \in Threads : t # u /\ Busy(t) /\ Busy(u) => {t, u} \subseteq crossed
    /\ \A t \in Threads \ crossed : pc[t] \in JobNames => negotiating

\* What is scheduled behind t's own "prepare" comes from threads t is crossed
\* with: whatever an earlier thread left behind runs first.
Behind ==
    /\ \A t \in Threads, i \in 1..Len(jobs) :
          Past(t) /\ jobs[i].by \notin {t, Ros} => {t, jobs[i].by} \subseteq crossed
    /\ \A i, j \in 1..Len(jobs) :
          i < j /\ jobs[i].do = "prepare" /\ jobs[i].by \in waiting
                /\ jobs[j].by \notin {jobs[i].by, Ros}
             => {jobs[i].by, jobs[j].by} \subseteq crossed

\* What is in a thread's hands, and what its webrtcbin holds, is its own or a
\* crossed thread's.
Answers ==
    /\ \A t \in Threads :
          /\ IF pc[t] = "idle" THEN answer[t] = None /\ result[t] = Pending
                               ELSE offer[t] \in Offers
          /\ answer[t] \in Own(t) \cup {None}
          /\ pc[t] \in {"setlocal", "gather", "final"} => answer[t] # None
          /\ result[t] \in Own(t) \cup {Pending, Failed}
          /\ pc[t] \in {"cleanup", "done"} => result[t] # Pending
    /\ \A t \in Threads : Past(t) /\ webrtcbin # None =>
          remote[webrtcbin] \in Own(t) \cup {None}
          /\ localDesc[webrtcbin] \in Own(t) \cup {None}

\* Of a thread that is alone everything is known.
Exact ==
    \A t \in Threads \ crossed : Past(t) =>
        /\ webrtcbin = t
        /\ pc[t] # "remote" => remote[t] = offer[t]
        /\ pc[t] \in {"setlocal", "gather", "final"} => answer[t] = offer[t]
        /\ localDesc[t] = IF pc[t] \in {"remote", "create", "setlocal"} THEN None ELSE offer[t]
        /\ pc[t] = "cleanup" => result[t] = offer[t]

Inv == TypeOK /\ JobsMatch /\ Alone /\ Behind /\ Answers /\ Exact
-----------------------------------------------------------------------------
LEMMA Taken ==
  ASSUME NEW S, NEW q \in Seq(S), q # <<>>
  PROVE  /\ Len(q) \in Nat \ {0} /\ Head(q) = q[1] /\ q[1] \in S
         /\ Tail(q) \in Seq(S) /\ Len(Tail(q)) = Len(q) - 1
         /\ \A i \in 1..Len(Tail(q)) : i + 1 \in 2..Len(q) /\ Tail(q)[i] = q[i + 1]
<1>1. Len(q) \in Nat \ {0} /\ Tail(q) \in Seq(S) /\ Len(Tail(q)) = Len(q) - 1
  OBVIOUS
<1>2. Head(q) = q[1] /\ q[1] \in S
  BY <1>1
<1>3. \A i \in 1..Len(Tail(q)) : i + 1 \in 2..Len(q) /\ Tail(q)[i] = q[i + 1]
  BY <1>1
<1> QED
  BY <1>1, <1>2, <1>3

LEMMA Appended ==
  ASSUME NEW S, NEW q \in Seq(S), NEW e \in S
  PROVE  /\ Append(q, e) \in Seq(S) /\ Len(q) \in Nat
         /\ Len(Append(q, e)) = Len(q) + 1
         /\ \A i \in 1..Len(q) : Append(q, e)[i] = q[i]
         /\ Append(q, e)[Len(q) + 1] = e
  OBVIOUS

JobType == [do : JobNames \cup {"build", "push"}, by : Threads \cup {Ros}]

\* What a job that a thread posted does to the threads: nothing if its caller
\* has given up; else the caller goes on, or fails.
JobTaken ==
    /\ jobs # <<>> /\ Head(jobs).do \in JobNames
    /\ jobs' = Tail(jobs)
    /\ UNCHANGED <<negotiating, looping, asked, camera>>
    /\ result' \in [Threads -> Offers \cup {Pending, Failed}]
    /\ \/ ~Await /\ UNCHANGED <<pc, waiting, result>>
       \/ /\ Await /\ waiting' = waiting \ {Caller}
          /\ \E place \in (JobNames \ {"prepare"}) \cup {"cleanup"} :
                /\ pc' = [pc EXCEPT ![Caller] = place]
                /\ place # "cleanup" => result' = result
                /\ place = "cleanup" => Linked(Caller) \/ result'[Caller] = Failed
                /\ \A u \in Threads \ {Caller} : result'[u] = result[u]

LEMMA HeadJob ==
  ASSUME TypeOK, JobsMatch, jobs # <<>>, Head(jobs).do \in JobNames
  PROVE  /\ Head(jobs) = jobs[1] /\ 1 \in 1..Len(jobs) /\ Len(jobs) \in Nat
         /\ Caller \in Threads /\ Caller # Ros
         /\ Len(Tail(jobs)) = Len(jobs) - 1
         /\ \A i \in 1..Len(Tail(jobs)) :
               /\ i + 1 \in 2..Len(jobs) /\ i + 1 \in 1..Len(jobs) /\ i + 1 # 1
               /\ Tail(jobs)[i] = jobs[i + 1]
               /\ jobs[i + 1].by # Caller
<1>1. jobs \in Seq(JobType)
  BY DEF TypeOK, JobType
<1>2. /\ Head(jobs) = jobs[1] /\ jobs[1] \in JobType /\ Len(jobs) \in Nat \ {0}
      /\ Len(Tail(jobs)) = Len(jobs) - 1
      /\ \A i \in 1..Len(Tail(jobs)) : i + 1 \in 2..Len(jobs) /\ Tail(jobs)[i] = jobs[i + 1]
  BY <1>1, Taken
<1>3. 1 \in 1..Len(jobs)
  BY <1>2
<1>4. Caller \in Threads /\ Caller # Ros
  BY <1>2, <1>3 DEF JobsMatch, JobType, JobNames, Caller
<1>5. \A i \in 1..Len(Tail(jobs)) : i + 1 \in 1..Len(jobs) /\ i + 1 # 1
  BY <1>2
<1>6. \A i \in 1..Len(Tail(jobs)) : jobs[i + 1].by # Caller
  BY <1>2, <1>3, <1>4, <1>5 DEF JobsMatch, Caller
<1> QED
  BY <1>2, <1>3, <1>4, <1>5, <1>6

LEMMA JobTakenKeepsControl ==
  ASSUME Inv, JobTaken
  PROVE  JobsMatch' /\ Alone' /\ Behind'
<1> USE DEF Inv
<1>0. PICK c \in Threads : c = Caller
  BY HeadJob DEF JobTaken
<1>1. /\ Head(jobs) = jobs[1] /\ 1 \in 1..Len(jobs) /\ Len(jobs) \in Nat
      /\ c \in Threads /\ c # Ros
      /\ Len(jobs') = Len(jobs) - 1
      /\ \A i \in 1..Len(jobs') :
            /\ i + 1 \in 2..Len(jobs) /\ i + 1 \in 1..Len(jobs) /\ i + 1 # 1
            /\ jobs'[i] = jobs[i + 1]
            /\ jobs[i + 1].by # c
  BY <1>0, HeadJob DEF JobTaken
<1>2. /\ \A u \in Threads \ {c} : pc'[u] = pc[u] /\ result'[u] = result[u]
                                  /\ (u \in waiting' <=> u \in waiting)
      /\ pc' \in [Threads -> {"idle", "begin", "cleanup", "done"} \cup JobNames]
      /\ Ros \in waiting' <=> Ros \in waiting
      /\ waiting' \subseteq waiting
  BY SMTT(30), <1>0, <1>1 DEF JobTaken, TypeOK
<1>3. ASSUME pc'[c] # pc[c] \/ c \notin waiting' \/ Past(c)'
      PROVE  \/ UNCHANGED <<pc, waiting, result>>
             \/ /\ c \in waiting /\ c \notin waiting' /\ pc[c] = jobs[1].do /\ pc[c] \in JobNames
                /\ pc'[c] \in (JobNames \ {"prepare"}) \cup {"cleanup"}
                /\ Past(c)' => Linked(c) \/ pc[c] = "prepare"
  BY <1>0, <1>1 DEF JobTaken, Await, Caller, Past, Linked, TypeOK
<1>4. JobsMatch'
  <2>1. ASSUME NEW i \in 1..Len(jobs')
        PROVE  /\ jobs'[i].by = Ros <=> jobs'[i].do \in {"build", "push"}
               /\ jobs'[i].by # Ros =>
                     /\ pc'[jobs'[i].by] \notin {"idle", "begin"}
                     /\ pc'[jobs'[i].by] \in JobNames =>
                           jobs'[i].by \in waiting' /\ jobs'[i].do = pc'[jobs'[i].by]
                     /\ pc'[jobs'[i].by] \in {"cleanup", "done"} => result'[jobs'[i].by] = Failed
    <3>0. jobs \in Seq(JobType) /\ i + 1 \in 1..Len(jobs)
      BY <1>1 DEF TypeOK, JobType
    <3>1. jobs[i + 1] \in JobType
      BY <3>0
    <3>2. jobs[i + 1].by \in Threads \cup {Ros}
      BY <3>1 DEF JobType
    <3> QED
      BY <1>1, <1>2, <3>2 DEF JobsMatch
  <2>2. \A i, j \in 1..Len(jobs') : jobs'[i].by = jobs'[j].by /\ jobs'[i].by # Ros => i = j
    <3> SUFFICES ASSUME NEW i \in 1..Len(jobs'), NEW j \in 1..Len(jobs'),
                        jobs'[i].by = jobs'[j].by, jobs'[i].by # Ros
                 PROVE  i = j
      OBVIOUS
    <3>1. i + 1 = j + 1
      BY <1>1 DEF JobsMatch
    <3> QED
      BY <3>1
  <2>3. Ros \in waiting' => ros' \in {"building", "pushing"}
    BY <1>2 DEF JobsMatch, JobTaken, camera
  <2>4. \A t \in waiting' \ {Ros} : pc'[t] \in JobNames
    BY <1>1, <1>2, <1>3 DEF JobsMatch, TypeOK
  <2> QED
    BY <2>1, <2>2, <2>3, <2>4 DEF JobsMatch
<1>5. Alone'
  <2>1. crossed' = crossed /\ negotiating' = negotiating
    BY DEF JobTaken, asked
  <2>2. \A t \in Threads : /\ Busy(t)' <=> Busy(t)
                           /\ pc'[t] = "idle" <=> pc[t] = "idle"
                           /\ pc'[t] \in JobNames => pc[t] \in JobNames
    BY <1>1, <1>2, <1>3 DEF Busy, JobNames
  <2>3. crossed \subseteq Threads
    BY DEF TypeOK
  <2> QED
    BY <2>1, <2>2, <2>3 DEF Alone
<1>6. Behind'
  <2>1. crossed' = crossed
    BY DEF JobTaken, asked
  <2>2. ASSUME NEW t \in Threads, NEW i \in 1..Len(jobs'), Past(t)', jobs'[i].by \notin {t, Ros}
        PROVE  {t, jobs'[i].by} \subseteq crossed
    <3>1. CASE Past(t)
      BY <1>1, <3>1, <2>2 DEF Behind
    <3>2. CASE ~Past(t)
      <4>1. t = c
        BY <1>2, <2>2, <3>2 DEF Past, Linked
      <4>2. pc[c] = "prepare" /\ jobs[1].do = "prepare" /\ c \in waiting
        <5>1. Past(c)' /\ ~Past(c)
          BY <2>2, <3>2, <4>1
        <5>2. ~ UNCHANGED <<pc, waiting, result>>
          BY <5>1 DEF Past, Linked
        <5>3. ~ Linked(c)
          BY <5>1 DEF Past
        <5> QED
          BY <1>3, <5>1, <5>2, <5>3
      <4>3. jobs[1].by = c /\ i + 1 \in 1..Len(jobs) /\ 1 < i + 1 /\ jobs'[i] = jobs[i + 1]
        BY <1>0, <1>1 DEF Caller
      <4> QED
        BY <1>1, <2>2, <4>1, <4>2, <4>3 DEF Behind
    <3> QED
      BY <3>1, <3>2
  <2>3. ASSUME NEW i \in 1..Len(jobs'), NEW j \in 1..Len(jobs'), i < j,
               jobs'[i].do = "prepare", jobs'[i].by \in waiting',
               jobs'[j].by \notin {jobs'[i].by, Ros}
        PROVE  {jobs'[i].by, jobs'[j].by} \subseteq crossed
    <3>1. i + 1 < j + 1 /\ i + 1 \in 1..Len(jobs) /\ j + 1 \in 1..Len(jobs)
          /\ jobs'[i] = jobs[i + 1] /\ jobs'[j] = jobs[j + 1]
      BY <1>1, <2>3
    <3> QED
      BY <1>2, <2>3, <3>1 DEF Behind
  <2> QED
    BY <2>1, <2>2, <2>3 DEF Behind
<1> QED
  BY <1>4, <1>5, <1>6

LEMMA JobTakenKeepsTypes ==
  ASSUME Inv, JobTaken, pipeline' \in BOOLEAN, webrtcbin' \in Threads \cup {None},
         remote' \in [Threads -> Offers \cup {None}],
         localDesc' \in [Threads -> Offers \cup {None}],
         answer' \in [Threads -> Offers \cup {None}]
  PROVE  TypeOK'
<1> USE DEF Inv
<1>0. PICK c \in Threads : c = Caller
  BY HeadJob DEF JobTaken
<1>1. /\ Len(jobs) \in Nat /\ c # Ros /\ jobs[1].by = c /\ Len(jobs') = Len(jobs) - 1
      /\ \A i \in 1..Len(jobs') : i + 1 \in 1..Len(jobs) /\ jobs'[i] = jobs[i + 1]
  BY <1>0, HeadJob DEF JobTaken, Caller
<1>2. jobs' \in Seq(JobType)
  BY Taken DEF JobTaken, TypeOK, JobType
<1>3. /\ waiting' \subseteq Threads \cup {Ros} /\ waiting' \subseteq waiting
      /\ c \notin waiting'
      /\ pc' \in [Threads -> {"idle", "begin", "cleanup", "done"} \cup JobNames]
      /\ \A t \in Threads \ {c} : pc'[t] = pc[t]
  <2>1. c \in waiting => Await
    <3>1. c \in waiting => pc[c] \in JobNames
      BY <1>1 DEF JobsMatch
    <3>2. 1 \in 1..Len(jobs) /\ Head(jobs) = jobs[1]
      BY HeadJob DEF JobTaken
    <3> QED
      BY <1>0, <1>1, <3>1, <3>2 DEF JobsMatch, Await, Caller
  <2> QED
    BY <1>0, <2>1 DEF JobTaken, TypeOK
<1>4. ASSUME NEW t \in waiting'
      PROVE  \E i \in 1..Len(jobs') : jobs'[i].by = t /\ jobs'[i].do = AwaitedBy(t)'
  <2>1. PICK i \in 1..Len(jobs) : jobs[i].by = t /\ jobs[i].do = AwaitedBy(t)
    BY <1>3, <1>4 DEF TypeOK
  <2>2. i # 1
    BY <1>1, <1>3, <1>4, <2>1
  <2>3. i - 1 \in 1..Len(jobs') /\ jobs'[i - 1] = jobs[i]
    BY <1>1, <2>2
  <2>4. AwaitedBy(t)' = AwaitedBy(t)
    BY <1>3, <1>4 DEF AwaitedBy, JobTaken, camera
  <2> QED
    BY <2>1, <2>3, <2>4
<1>5. /\ negotiating' \in BOOLEAN /\ looping' \in BOOLEAN
      /\ offer' \in [Threads -> Offers \cup {None}] /\ crossed' \subseteq Threads
      /\ result' \in [Threads -> Offers \cup {Pending, Failed}]
      /\ ros' \in {"idle", "building", "check", "post", "pushing"}
      /\ fed' \in 0..1
  BY DEF TypeOK, JobTaken, asked, camera
<1> QED
  BY <1>2, <1>3, <1>4, <1>5 DEF TypeOK, JobType

\* Who is affected by a job: threads that are crossed with its caller, and the
\* caller itself.
LEMMA JobFacts ==
  ASSUME Inv, JobTaken, NEW c, c = Caller
  PROVE  /\ c \in Threads /\ crossed' = crossed /\ offer' = offer
         /\ Await => pc[c] = Head(jobs).do /\ pc[c] \in JobNames /\ c \in waiting
         /\ \A t \in Threads : Past(t)' =>
               Own(c) \subseteq Own(t) /\ (Head(jobs).do # "prepare" => Past(t))
         /\ \A t \in Threads \ crossed : Past(t)' => t = c /\ Await
<1> USE DEF Inv
<1>1. /\ c \in Threads /\ c # Ros /\ Head(jobs) = jobs[1] /\ jobs[1].by = c /\ 1 \in 1..Len(jobs)
      /\ crossed' = crossed /\ offer' = offer
  BY HeadJob DEF JobTaken, Caller, asked
<1>2. Await => pc[c] = Head(jobs).do /\ pc[c] \in JobNames /\ c \in waiting
  BY DEF Await, JobTaken
<1>3. \A t \in Threads \ {c} : Past(t)' => Past(t)
  BY <1>1 DEF JobTaken, Past, Linked, TypeOK
<1>4. \A t \in Threads \ {c} : Past(t)' => {t, c} \subseteq crossed
  BY <1>1, <1>3 DEF Behind
<1>5. Past(c)' => Await
  <2> SUFFICES ASSUME ~Await PROVE ~Past(c)'
    OBVIOUS
  <2>1. Past(c)' => Past(c)
    BY DEF JobTaken, Past, Linked
  <2>2. ~Past(c)
    BY <1>1 DEF JobsMatch, Past, Linked, Await, Caller
  <2> QED
    BY <2>1, <2>2
<1>6. Past(c)' /\ Head(jobs).do # "prepare" => Past(c)
  BY <1>2, <1>5 DEF Past, Linked
<1>7. \A t \in Threads : Past(t)' => Own(c) \subseteq Own(t)
  BY <1>4 DEF Own
<1> QED
  BY <1>1, <1>2, <1>3, <1>4, <1>5, <1>6, <1>7
-----------------------------------------------------------------------------
\* The jobs, one after the other.
LEMMA SucceedTakes ==
  ASSUME Inv, jobs # <<>>, Head(jobs).do \in JobNames, Succeed,
         \/ Head(jobs).do # "final" /\ result' = result
         \/ /\ Head(jobs).do = "final"
            /\ \/ ~Await /\ result' = result
               \/ Await /\ \E x \in Offers : result' = [result EXCEPT ![Caller] = x]
  PROVE  JobTaken
<1> USE DEF Inv
<1>1. Caller \in Threads
  BY HeadJob
<1>2. result' \in [Threads -> Offers \cup {Pending, Failed}]
  BY <1>1 DEF TypeOK
<1>3. \A u \in Threads \ {Caller} : result'[u] = result[u]
  BY <1>1 DEF TypeOK
<1>4. CASE ~Await
  BY <1>2, <1>4 DEF JobTaken, Succeed, JobDone
<1>5. CASE Await
  <2>1. /\ NextStep(Head(jobs).do) \in (JobNames \ {"prepare"}) \cup {"cleanup"}
        /\ NextStep(Head(jobs).do) = "cleanup" <=> Head(jobs).do = "final"
    BY DEF NextStep, JobNames
  <2>2. Head(jobs).do = "final" => Linked(Caller)
    BY <1>5 DEF Await, Linked, JobNames
  <2> QED
    BY <1>2, <1>3, <1>5, <2>1, <2>2 DEF JobTaken, Succeed, JobDone, Goto
<1> QED
  BY <1>4, <1>5

\* A job that raises leaves its caller with a failure.
LEMMA RaiseKeepsInv ==
  ASSUME Inv, jobs # <<>>, Head(jobs).do \in JobNames, Raise,
         UNCHANGED <<pipeline, remote, localDesc>>,
         \/ webrtcbin' = webrtcbin /\ Head(jobs).do # "prepare"
         \/ webrtcbin' = None
  PROVE  Inv'
<1> USE DEF Inv
<1>0. PICK c \in Threads : c = Caller
  BY HeadJob
<1>1. JobTaken
  <2>1. result' \in [Threads -> Offers \cup {Pending, Failed}]
        /\ \A u \in Threads \ {c} : result'[u] = result[u]
    BY <1>0 DEF TypeOK, Raise
  <2>2. CASE ~Await
    BY <2>1, <2>2 DEF JobTaken, Raise, JobDone
  <2>3. CASE Await
    <3>1. result'[c] = Failed
      BY <1>0, <2>3 DEF TypeOK, Raise
    <3> QED
      BY <1>0, <2>1, <2>3, <3>1 DEF JobTaken, Raise, JobDone, Goto
  <2> QED
    BY <2>2, <2>3
<1>2. /\ crossed' = crossed /\ offer' = offer /\ answer' = answer
      /\ Await => pc[c] \in JobNames
      /\ \A t \in Threads : Past(t)' /\ webrtcbin' # None => Past(t) /\ webrtcbin' = webrtcbin
      /\ \A t \in Threads \ crossed : Past(t)' => t = c /\ Await
  BY <1>0, <1>1, JobFacts DEF Raise
<1>3. TypeOK'
  BY <1>1, JobTakenKeepsTypes DEF TypeOK, Raise
<1>4. Answers'
  <2>1. \A t \in Threads : Own(t)' = Own(t)
    BY <1>2 DEF Own
  <2>2. ASSUME NEW t \in Threads
        PROVE  /\ pc'[t] # "idle" => pc[t] # "idle"
               /\ pc'[t] \in {"setlocal", "gather", "final"} => pc'[t] = pc[t]
               /\ \/ pc'[t] = pc[t] /\ result'[t] = result[t]
                  \/ pc'[t] = "cleanup" /\ result'[t] = Failed
    BY <1>0, <1>2 DEF Raise, Goto, TypeOK, JobNames
  <2>3. Failed # Pending
    BY DEF Failed, Pending
  <2> QED
    BY <1>2, <2>1, <2>2, <2>3 DEF Answers, Raise
<1>5. Exact'
  <2>1. Await => ~Past(c)'
    BY <1>0 DEF Raise, Goto, TypeOK, Past, Linked, JobNames
  <2> QED
    BY <1>2, <2>1 DEF Exact
<1> QED
  BY <1>1, <1>3, <1>4, <1>5, JobTakenKeepsControl

LEMMA PrepareKeepsInv == ASSUME Inv, Prepare PROVE Inv'
<1> USE DEF Inv
<1>1. jobs # <<>> /\ Head(jobs).do = "prepare" /\ Head(jobs).do \in JobNames
  BY DEF Prepare, Job, JobNames
<1>2. CASE Raise /\ webrtcbin' = None /\ UNCHANGED <<pipeline, remote, localDesc>>
  BY <1>1, <1>2, RaiseKeepsInv
<1>3. CASE /\ webrtcbin' = Caller
           /\ remote' = [remote EXCEPT ![Caller] = None]
           /\ localDesc' = [localDesc EXCEPT ![Caller] = None]
           /\ Succeed
           /\ UNCHANGED <<pipeline, answer, result>>
  <2>0. PICK c \in Threads : c = Caller
    BY <1>1, HeadJob
  <2>1. JobTaken
    BY <1>1, <1>3, SucceedTakes
  <2>2. /\ crossed' = crossed /\ offer' = offer
        /\ Await => pc[c] = "prepare"
        /\ \A t \in Threads \ crossed : Past(t)' => t = c /\ Await
    BY <1>1, <2>0, <2>1, JobFacts
  <2>3. TypeOK'
    BY <1>3, <2>0, <2>1, JobTakenKeepsTypes DEF TypeOK
  <2>4. /\ webrtcbin' = c /\ remote'[c] = None /\ localDesc'[c] = None
        /\ Await => pc' = [pc EXCEPT ![c] = "remote"]
        /\ ~Await => pc' = pc
    BY <1>1, <1>3, <2>0 DEF TypeOK, Succeed, Goto, NextStep
  <2>5. Answers'
    <3>1. \A t \in Threads : Own(t)' = Own(t)
      BY <2>2 DEF Own
    <3>2. \A t \in Threads : pc'[t] = pc[t] \/ (pc'[t] = "remote" /\ pc[t] = "prepare")
      BY <2>2, <2>4 DEF TypeOK
    <3> QED
      BY <1>3, <2>2, <2>4, <3>1, <3>2 DEF Answers
  <2>6. Exact'
    BY <2>2, <2>4 DEF Exact, TypeOK
  <2> QED
    BY <2>1, <2>3, <2>5, <2>6, JobTakenKeepsControl
<1> QED
  BY <1>2, <1>3 DEF Prepare

LEMMA NoWebrtcbinKeepsInv == ASSUME Inv, NoWebrtcbin PROVE Inv'
<1>1. jobs # <<>> /\ Head(jobs).do \in JobNames /\ Head(jobs).do # "prepare"
  BY DEF NoWebrtcbin, Job
<1> QED
  BY <1>1, RaiseKeepsInv DEF NoWebrtcbin, media

LEMMA SetRemoteKeepsInv == ASSUME Inv, SetRemote PROVE Inv'
<1> USE DEF Inv
<1>1. jobs # <<>> /\ Head(jobs).do = "remote" /\ Head(jobs).do \in JobNames
  BY DEF SetRemote, Job, JobNames
<1>2. PICK c \in Threads : c = Caller
  BY <1>1, HeadJob
<1>3. JobTaken
  BY <1>1, SucceedTakes DEF SetRemote
<1>4. /\ crossed' = crossed /\ offer' = offer
      /\ Await => pc[c] = "remote"
      /\ \A t \in Threads : Past(t)' => Own(c) \subseteq Own(t) /\ Past(t)
      /\ \A t \in Threads \ crossed : Past(t)' => t = c /\ Await
  BY <1>1, <1>2, <1>3, JobFacts
<1>5. /\ webrtcbin \in Threads /\ webrtcbin # None
      /\ webrtcbin' = webrtcbin /\ localDesc' = localDesc
      /\ remote' = [remote EXCEPT ![webrtcbin] = offer[c]]
      /\ UNCHANGED <<pipeline, answer, result>>
      /\ Await => pc' = [pc EXCEPT ![c] = "create"]
      /\ ~Await => pc' = pc
  BY <1>1, <1>2 DEF SetRemote, TypeOK, Succeed, Goto, NextStep
<1>6. TypeOK'
  BY <1>3, <1>5, JobTakenKeepsTypes DEF TypeOK
<1>7. \A t \in Threads : Own(t)' = Own(t)
  BY <1>4 DEF Own
<1>8. \A t \in Threads : pc'[t] = pc[t] \/ (pc'[t] = "create" /\ pc[t] = "remote")
  BY <1>4, <1>5 DEF TypeOK
<1>9. Answers'
  <2>1. \A t \in Threads : Past(t)' =>
           remote'[webrtcbin] \in Own(t) /\ localDesc'[webrtcbin] \in Own(t) \cup {None}
    <3>1. offer[c] \in Own(c)
      BY DEF Own
    <3>2. remote'[webrtcbin] = offer[c]
      BY <1>5 DEF TypeOK
    <3> QED
      BY <1>4, <1>5, <3>1, <3>2 DEF Answers
  <2> QED
    BY <1>4, <1>5, <1>7, <1>8, <2>1 DEF Answers
<1>10. Exact'
  BY <1>4, <1>5 DEF Exact, TypeOK
<1> QED
  BY <1>3, <1>6, <1>9, <1>10, JobTakenKeepsControl

LEMMA CreateAnswerKeepsInv == ASSUME Inv, CreateAnswer PROVE Inv'
<1> USE DEF Inv
<1>1. jobs # <<>> /\ Head(jobs).do = "create" /\ Head(jobs).do \in JobNames /\ webrtcbin # None
  BY DEF CreateAnswer, Job, JobNames
<1>2. CASE remote[webrtcbin] = None
  BY <1>1, <1>2, RaiseKeepsInv DEF CreateAnswer, media
<1>3. CASE remote[webrtcbin] # None
  <2>0. PICK c \in Threads : c = Caller
    BY <1>1, HeadJob
  <2>1. JobTaken
    BY <1>1, <1>3, SucceedTakes DEF CreateAnswer
  <2>2. /\ crossed' = crossed /\ offer' = offer
        /\ Await => pc[c] = "create"
        /\ \A t \in Threads : Past(t)' => Past(t)
        /\ \A t \in Threads \ crossed : Past(t)' => t = c /\ Await
    BY <1>1, <2>0, <2>1, JobFacts
  <2>3. /\ UNCHANGED media /\ result' = result /\ webrtcbin \in Threads
        /\ Await => /\ pc' = [pc EXCEPT ![c] = "setlocal"]
                    /\ answer' = [answer EXCEPT ![c] = remote[webrtcbin]]
        /\ ~Await => pc' = pc /\ answer' = answer
    BY <1>1, <1>3, <2>0 DEF CreateAnswer, TypeOK, Succeed, Goto, NextStep
  <2>4. UNCHANGED <<pipeline, webrtcbin, remote, localDesc>>
    BY <2>3 DEF media
  <2>5. answer' \in [Threads -> Offers \cup {None}]
    BY <2>3 DEF TypeOK
  <2>6. TypeOK'
    BY <2>1, <2>4, <2>5, JobTakenKeepsTypes DEF TypeOK
  <2>7. \A t \in Threads : Own(t)' = Own(t)
    BY <2>2 DEF Own
  <2>8. Await => remote[webrtcbin] \in Own(c)
    BY <1>3, <2>2, <2>3, OffersAssumption DEF Answers, Past, Linked, JobNames
  <2>9. Answers'
    <3>1. ASSUME NEW t \in Threads
          PROVE  /\ pc'[t] = "idle" <=> pc[t] = "idle"
                 /\ pc'[t] = "idle" => answer'[t] = answer[t]
                 /\ answer'[t] \in Own(t) \cup {None}
                 /\ pc'[t] \in {"setlocal", "gather", "final"} => answer'[t] # None
                 /\ pc'[t] \in {"cleanup", "done"} => pc[t] \in {"cleanup", "done"}
      <4>1. CASE t = c /\ Await
        BY <1>3, <2>2, <2>3, <2>8, <4>1 DEF TypeOK
      <4>2. CASE ~(t = c /\ Await)
        BY <2>3, <4>2 DEF TypeOK, Answers
      <4> QED
        BY <4>1, <4>2
    <3> QED
      BY <2>2, <2>3, <2>4, <2>7, <3>1 DEF Answers
  <2>10. Exact'
    BY <2>2, <2>3, <2>4 DEF Exact, TypeOK, Past, Linked, JobNames
  <2> QED
    BY <2>1, <2>6, <2>9, <2>10, JobTakenKeepsControl
<1> QED
  BY <1>2, <1>3

LEMMA SetLocalKeepsInv == ASSUME Inv, SetLocal PROVE Inv'
<1> USE DEF Inv
<1>1. jobs # <<>> /\ Head(jobs).do = "setlocal" /\ Head(jobs).do \in JobNames
      /\ webrtcbin # None /\ webrtcbin \in Threads
  BY DEF SetLocal, Job, JobNames, TypeOK
<1>2. PICK c \in Threads : c = Caller
  BY <1>1, HeadJob
<1>3. JobTaken
  BY <1>1, SucceedTakes DEF SetLocal
<1>4. /\ crossed' = crossed /\ offer' = offer
      /\ Await => pc[c] = "setlocal"
      /\ \A t \in Threads : Past(t)' => Own(c) \subseteq Own(t) /\ Past(t)
      /\ \A t \in Threads \ crossed : Past(t)' => t = c /\ Await
  BY <1>1, <1>2, <1>3, JobFacts
<1>5. /\ UNCHANGED <<pipeline, webrtcbin, remote, answer, result>>
      /\ localDesc' = IF remote[webrtcbin] # None /\ localDesc[webrtcbin] = None
                         THEN [localDesc EXCEPT ![webrtcbin] = answer[c]] ELSE localDesc
      /\ Await => pc' = [pc EXCEPT ![c] = "gather"]
      /\ ~Await => pc' = pc
  BY <1>1, <1>2 DEF SetLocal, TypeOK, Succeed, Goto, NextStep
<1>6. TypeOK'
  BY <1>1, <1>3, <1>5, JobTakenKeepsTypes DEF TypeOK
<1>7. \A t \in Threads : Own(t)' = Own(t)
  BY <1>4 DEF Own
<1>8. \A t \in Threads : pc'[t] = pc[t] \/ (pc'[t] = "gather" /\ pc[t] = "setlocal")
  BY <1>4, <1>5 DEF TypeOK
<1>9. Answers'
  <2>1. \A t \in Threads : Past(t)' =>
           remote'[webrtcbin] \in Own(t) \cup {None} /\ localDesc'[webrtcbin] \in Own(t) \cup {None}
    <3>1. answer[c] \in Own(c) \cup {None}
      BY DEF Answers
    <3>2. localDesc'[webrtcbin] \in {answer[c], localDesc[webrtcbin]}
      BY <1>1, <1>5 DEF TypeOK
    <3> QED
      BY <1>1, <1>4, <1>5, <3>1, <3>2 DEF Answers
  <2> QED
    BY <1>1, <1>4, <1>5, <1>7, <1>8, <2>1 DEF Answers
<1>10. Exact'
  <2> SUFFICES ASSUME NEW t \in Threads \ crossed', Past(t)'
               PROVE  /\ webrtcbin' = t /\ pc'[t] = "gather" /\ remote'[t] = offer'[t]
                      /\ answer'[t] = offer'[t] /\ localDesc'[t] = offer'[t]
    BY DEF Exact
  <2>1. t = c /\ t \notin crossed /\ Await /\ Past(t) /\ pc[t] = "setlocal"
    BY <1>4
  <2>2. /\ webrtcbin = t /\ remote[t] = offer[t] /\ answer[t] = offer[t] /\ localDesc[t] = None
    BY <2>1 DEF Exact
  <2>3. offer[t] # None
    BY <2>1, OffersAssumption DEF Answers
  <2> QED
    BY <1>4, <1>5, <2>1, <2>2, <2>3 DEF TypeOK
<1> QED
  BY <1>3, <1>6, <1>9, <1>10, JobTakenKeepsControl

LEMMA GatherKeepsInv == ASSUME Inv, Gather PROVE Inv'
<1> USE DEF Inv
<1>1. jobs # <<>> /\ Head(jobs).do = "gather" /\ Head(jobs).do \in JobNames
  BY DEF Gather, Job, JobNames
<1>2. PICK c \in Threads : c = Caller
  BY <1>1, HeadJob
<1>3. JobTaken
  BY <1>1, SucceedTakes DEF Gather
<1>4. /\ crossed' = crossed /\ offer' = offer
      /\ Await => pc[c] = "gather"
      /\ \A t \in Threads : Past(t)' => Past(t)
      /\ \A t \in Threads \ crossed : Past(t)' => t = c /\ Await
  BY <1>1, <1>2, <1>3, JobFacts
<1>5. /\ UNCHANGED <<pipeline, webrtcbin, remote, localDesc, answer, result>>
      /\ Await => pc' = [pc EXCEPT ![c] = "final"]
      /\ ~Await => pc' = pc
  BY <1>1, <1>2 DEF Gather, media, Succeed, Goto, NextStep
<1>6. TypeOK'
  BY <1>3, <1>5, JobTakenKeepsTypes DEF TypeOK
<1>7. \A t \in Threads : Own(t)' = Own(t)
  BY <1>4 DEF Own
<1>8. \A t \in Threads : pc'[t] = pc[t] \/ (pc'[t] = "final" /\ pc[t] = "gather")
  BY <1>4, <1>5 DEF TypeOK
<1>9. Answers'
  BY <1>4, <1>5, <1>7, <1>8 DEF Answers
<1>10. Exact'
  BY <1>4, <1>5 DEF Exact, TypeOK
<1> QED
  BY <1>3, <1>6, <1>9, <1>10, JobTakenKeepsControl

LEMMA FinalKeepsInv == ASSUME Inv, Final PROVE Inv'
<1> USE DEF Inv
<1>1. jobs # <<>> /\ Head(jobs).do = "final" /\ Head(jobs).do \in JobNames
      /\ webrtcbin # None /\ webrtcbin \in Threads
  BY DEF Final, Job, JobNames, TypeOK
<1>2. PICK c \in Threads : c = Caller
  BY <1>1, HeadJob
<1> DEFINE text == IF localDesc[webrtcbin] = None THEN answer[c] ELSE localDesc[webrtcbin]
<1>3. /\ UNCHANGED <<pipeline, webrtcbin, remote, localDesc, answer>>
      /\ Await => /\ pc' = [pc EXCEPT ![c] = "cleanup"]
                  /\ result' = [result EXCEPT ![c] = text]
      /\ ~Await => pc' = pc /\ result' = result
  BY <1>1, <1>2 DEF Final, media, Succeed, Goto, NextStep
<1>4. Await => pc[c] = "final"
  BY <1>1, <1>2 DEF Await
<1>5. Await => text \in Own(c) /\ text \in Offers
  <2> SUFFICES ASSUME Await PROVE text \in Own(c) /\ text # None
    <3>1. text \in Offers \cup {None}
      BY <1>1 DEF TypeOK
    <3> QED
      BY <3>1
  <2>1. Past(c) /\ pc[c] = "final"
    BY <1>4 DEF Past, Linked, JobNames
  <2>2. localDesc[webrtcbin] \in Own(c) \cup {None} /\ answer[c] \in Own(c) /\ answer[c] # None
    BY <1>1, <2>1 DEF Answers
  <2> QED
    BY <2>2
<1>6. JobTaken
  BY <1>1, <1>2, <1>3, <1>5, SucceedTakes DEF Final
<1>7. /\ crossed' = crossed /\ offer' = offer
      /\ \A t \in Threads : Past(t)' => Past(t)
      /\ \A t \in Threads \ crossed : Past(t)' => t = c /\ Await
  BY <1>1, <1>2, <1>6, JobFacts
<1>8. TypeOK'
  BY <1>3, <1>6, JobTakenKeepsTypes DEF TypeOK
<1>9. \A t \in Threads : Own(t)' = Own(t)
  BY <1>7 DEF Own
<1>10. Answers'
  <2>1. ASSUME NEW t \in Threads
        PROVE  /\ pc'[t] = "idle" <=> pc[t] = "idle"
               /\ pc'[t] = "idle" => result'[t] = result[t]
               /\ result'[t] \in Own(t) \cup {Pending, Failed}
               /\ pc'[t] \in {"setlocal", "gather", "final"} => answer'[t] # None
               /\ pc'[t] \in {"cleanup", "done"} => result'[t] # Pending
    <3>1. CASE t = c /\ Await
      BY <1>3, <1>4, <1>5, <3>1, OutcomeAssumption DEF TypeOK
    <3>2. CASE ~(t = c /\ Await)
      BY <1>3, <3>2 DEF TypeOK, Answers
    <3> QED
      BY <3>1, <3>2
  <2> QED
    BY <1>3, <1>7, <1>9, <2>1 DEF Answers
<1>11. Exact'
  <2> SUFFICES ASSUME NEW t \in Threads \ crossed', Past(t)'
               PROVE  /\ webrtcbin' = t /\ pc'[t] = "cleanup" /\ remote'[t] = offer'[t]
                      /\ localDesc'[t] = offer'[t] /\ result'[t] = offer'[t]
    BY DEF Exact
  <2>1. t = c /\ t \notin crossed /\ Await /\ Past(t) /\ pc[t] = "final"
    BY <1>4, <1>7
  <2>2. webrtcbin = t /\ remote[t] = offer[t] /\ answer[t] = offer[t] /\ localDesc[t] = offer[t]
    BY <2>1 DEF Exact
  <2> QED
    BY <1>3, <1>7, <2>1, <2>2 DEF TypeOK
<1> QED
  BY <1>6, <1>8, <1>10, <1>11, JobTakenKeepsControl
-----------------------------------------------------------------------------
\* The camera's side.
LEMMA FirstJob ==
  ASSUME TypeOK, jobs # <<>>
  PROVE  /\ Head(jobs) = jobs[1] /\ 1 \in 1..Len(jobs) /\ Len(jobs) \in Nat
         /\ Tail(jobs) \in Seq(JobType) /\ Len(Tail(jobs)) = Len(jobs) - 1
         /\ \A i \in 1..Len(Tail(jobs)) : i + 1 \in 1..Len(jobs) /\ Tail(jobs)[i] = jobs[i + 1]
<1>1. jobs \in Seq(JobType)
  BY DEF TypeOK, JobType
<1> QED
  BY <1>1, Taken

LEMMA TalkUnchanged ==
  ASSUME Inv, UNCHANGED <<webrtcbin, remote, localDesc, talk>>
  PROVE  Answers' /\ Exact'
  BY DEF Inv, talk, asked, Answers, Exact, Past, Linked, Own

LEMMA FramePosts ==
  ASSUME Inv, UNCHANGED <<media, negotiating, looping, talk, fed>>,
         NEW name \in {"build", "push"}, Schedule(name, Ros),
         ros' = IF name = "build" THEN "building" ELSE "pushing"
  PROVE  Inv'
<1> USE DEF Inv
<1>1. /\ jobs' \in Seq(JobType) /\ Len(jobs) \in Nat /\ Len(jobs') = Len(jobs) + 1
      /\ \A i \in 1..Len(jobs) : jobs'[i] = jobs[i]
      /\ jobs'[Len(jobs) + 1] = [do |-> name, by |-> Ros]
  <2>1. jobs \in Seq(JobType) /\ [do |-> name, by |-> Ros] \in JobType
    BY DEF TypeOK, JobType
  <2> QED
    BY <2>1, Appended DEF Schedule
<1>2. /\ \A i \in 1..Len(jobs') : i \in 1..Len(jobs) \/ i = Len(jobs) + 1
      /\ waiting' = waiting \cup {Ros} /\ UNCHANGED <<pc, offer, crossed, answer, result>>
      /\ UNCHANGED <<pipeline, webrtcbin, remote, localDesc>>
  BY <1>1 DEF Schedule, talk, asked, media
<1>3. TypeOK'
  <2>1. ASSUME NEW t \in waiting'
        PROVE  \E i \in 1..Len(jobs') : jobs'[i].by = t /\ jobs'[i].do = AwaitedBy(t)'
    <3>1. CASE t = Ros
      <4>1. Len(jobs) + 1 \in 1..Len(jobs') /\ jobs'[Len(jobs) + 1].by = Ros
            /\ jobs'[Len(jobs) + 1].do = name
        BY <1>1
      <4>2. AwaitedBy(Ros)' = name
        BY DEF AwaitedBy
      <4> QED
        BY <3>1, <4>1, <4>2
    <3>2. CASE t # Ros
      <4>1. PICK i \in 1..Len(jobs) : jobs[i].by = t /\ jobs[i].do = AwaitedBy(t)
        BY <1>2, <3>2 DEF TypeOK
      <4>2. AwaitedBy(t)' = AwaitedBy(t)
        BY <1>2, <3>2 DEF AwaitedBy
      <4>3. i \in 1..Len(jobs') /\ jobs'[i] = jobs[i]
        BY <1>1
      <4> QED
        BY <4>1, <4>2, <4>3
    <3> QED
      BY <3>1, <3>2
  <2> QED
    BY <1>1, <1>2, <2>1 DEF TypeOK, JobType
<1>4. JobsMatch'
  <2>1. \A i \in 1..Len(jobs') : i = Len(jobs) + 1 => jobs'[i].by = Ros /\ jobs'[i].do = name
    BY <1>1
  <2>2. /\ \A i \in 1..Len(jobs') :
             /\ jobs'[i].by = Ros <=> jobs'[i].do \in {"build", "push"}
             /\ jobs'[i].by # Ros =>
                   /\ pc[jobs'[i].by] \notin {"idle", "begin"}
                   /\ pc[jobs'[i].by] \in JobNames =>
                         jobs'[i].by \in waiting' /\ jobs'[i].do = pc[jobs'[i].by]
                   /\ pc[jobs'[i].by] \in {"cleanup", "done"} => result[jobs'[i].by] = Failed
    BY <1>1, <1>2, <2>1 DEF JobsMatch
  <2>3. \A i, j \in 1..Len(jobs') : jobs'[i].by = jobs'[j].by /\ jobs'[i].by # Ros => i = j
    BY <1>1, <1>2, <2>1 DEF JobsMatch
  <2>4. \A t \in waiting' \ {Ros} : pc[t] \in JobNames
    BY <1>2 DEF JobsMatch
  <2> QED
    BY <1>2, <2>2, <2>3, <2>4 DEF JobsMatch
<1>5. Alone'
  BY <1>2 DEF Alone, Busy
<1>6. Behind'
  <2>1. \A i \in 1..Len(jobs') : i = Len(jobs) + 1 => jobs'[i].by = Ros /\ jobs'[i].do = name
    BY <1>1
  <2>2. \A t \in Threads, i \in 1..Len(jobs') :
           Past(t)' /\ jobs'[i].by \notin {t, Ros} => {t, jobs'[i].by} \subseteq crossed
    BY <1>1, <1>2, <2>1 DEF Behind, Past, Linked
  <2>3. \A i, j \in 1..Len(jobs') :
          i < j /\ jobs'[i].do = "prepare" /\ jobs'[i].by \in waiting'
                /\ jobs'[j].by \notin {jobs'[i].by, Ros}
             => {jobs'[i].by, jobs'[j].by} \subseteq crossed
    <3> SUFFICES ASSUME NEW i \in 1..Len(jobs'), NEW j \in 1..Len(jobs'), i < j,
                        jobs'[i].do = "prepare", jobs'[i].by \in waiting',
                        jobs'[j].by \notin {jobs'[i].by, Ros}
                 PROVE  {jobs'[i].by, jobs'[j].by} \subseteq crossed
      OBVIOUS
    <3>1. j \in 1..Len(jobs) /\ i \in 1..Len(jobs) /\ jobs'[i] = jobs[i] /\ jobs'[j] = jobs[j]
      BY <1>1, <1>2, <2>1
    <3>2. jobs[i].by # Ros
      BY <3>1 DEF JobsMatch
    <3> QED
      BY <1>2, <3>1, <3>2 DEF Behind
  <2> QED
    BY <1>2, <2>2, <2>3 DEF Behind
<1>7. Answers' /\ Exact'
  BY <1>2, TalkUnchanged
<1> QED
  BY <1>3, <1>4, <1>5, <1>6, <1>7

LEMMA FrameJobRuns ==
  ASSUME Inv, jobs # <<>>, Head(jobs).do \in {"build", "push"},
         jobs' = Tail(jobs), waiting' = waiting \ {Ros},
         UNCHANGED <<webrtcbin, remote, localDesc, negotiating, looping, talk>>,
         pipeline' \in BOOLEAN, fed' \in 0..1,
         ros' \in {"idle", "building", "check", "post", "pushing"}
  PROVE  Inv'
<1> USE DEF Inv
<1>1. /\ Head(jobs) = jobs[1] /\ 1 \in 1..Len(jobs) /\ Len(jobs) \in Nat
      /\ jobs' \in Seq(JobType) /\ Len(jobs') = Len(jobs) - 1
      /\ \A i \in 1..Len(jobs') : i + 1 \in 1..Len(jobs) /\ jobs'[i] = jobs[i + 1]
  BY FirstJob
<1>2. jobs[1].by = Ros
  BY <1>1 DEF JobsMatch
<1>3. UNCHANGED <<pc, offer, crossed, answer, result>>
  BY DEF talk, asked
<1>4. TypeOK'
  <2>1. ASSUME NEW t \in waiting'
        PROVE  \E i \in 1..Len(jobs') : jobs'[i].by = t /\ jobs'[i].do = AwaitedBy(t)'
    <3>1. PICK i \in 1..Len(jobs) : jobs[i].by = t /\ jobs[i].do = AwaitedBy(t)
      BY DEF TypeOK
    <3>2. i # 1 /\ t # Ros
      BY <1>2, <3>1
    <3>3. i - 1 \in 1..Len(jobs') /\ jobs'[i - 1] = jobs[i]
      BY <1>1, <3>2
    <3>4. AwaitedBy(t)' = AwaitedBy(t)
      BY <1>3, <3>2 DEF AwaitedBy
    <3> QED
      BY <3>1, <3>3, <3>4
  <2> QED
    BY <1>1, <1>3, <2>1 DEF TypeOK, JobType
<1>5. JobsMatch'
  <2>1. \A i, j \in 1..Len(jobs') : jobs'[i].by = jobs'[j].by /\ jobs'[i].by # Ros => i = j
    <3> SUFFICES ASSUME NEW i \in 1..Len(jobs'), NEW j \in 1..Len(jobs'),
                        jobs'[i].by = jobs'[j].by, jobs'[i].by # Ros
                 PROVE  i = j
      OBVIOUS
    <3>1. i + 1 = j + 1
      BY <1>1 DEF JobsMatch
    <3> QED
      BY <3>1
  <2> QED
    BY <1>1, <1>3, <2>1 DEF JobsMatch
<1>6. Alone'
  BY <1>3 DEF Alone, Busy
<1>7. Behind'
  <2>1. \A t \in Threads, i \in 1..Len(jobs') :
           Past(t)' /\ jobs'[i].by \notin {t, Ros} => {t, jobs'[i].by} \subseteq crossed
    BY <1>1, <1>3 DEF Behind, Past, Linked
  <2>2. ASSUME NEW i \in 1..Len(jobs'), NEW j \in 1..Len(jobs'), i < j,
               jobs'[i].do = "prepare", jobs'[i].by \in waiting',
               jobs'[j].by \notin {jobs'[i].by, Ros}
        PROVE  {jobs'[i].by, jobs'[j].by} \subseteq crossed
    <3>1. i + 1 < j + 1 /\ i + 1 \in 1..Len(jobs) /\ j + 1 \in 1..Len(jobs)
          /\ jobs'[i] = jobs[i + 1] /\ jobs'[j] = jobs[j + 1]
      BY <1>1, <2>2
    <3> QED
      BY <2>2, <3>1 DEF Behind
  <2> QED
    BY <1>3, <2>1, <2>2 DEF Behind
<1>8. Answers' /\ Exact'
  BY TalkUnchanged
<1> QED
  BY <1>4, <1>5, <1>6, <1>7, <1>8

LEMMA FrameSteps ==
  ASSUME Inv, UNCHANGED <<media, negotiating, jobs, talk, fed>>,
         \/ UNCHANGED waiting /\ (ros' = ros \/ ros \notin {"building", "pushing"})
         \/ waiting' = waiting \ {Ros},
         ros' \in {"idle", "building", "check", "post", "pushing"}, looping' \in BOOLEAN
  PROVE  Inv'
<1> USE DEF Inv
<1>1. UNCHANGED <<pipeline, webrtcbin, remote, localDesc, pc, offer, crossed, answer, result>>
  BY DEF media, talk, asked
<1>2. waiting' \subseteq waiting /\ (Ros \in waiting' => Ros \in waiting /\ ros' = ros)
      /\ \A t \in Threads : t \in waiting' <=> t \in waiting
  BY RosAssumption DEF JobsMatch
<1>3. TypeOK'
  <2>1. \A t \in waiting' : AwaitedBy(t)' = AwaitedBy(t)
    BY <1>1, <1>2 DEF AwaitedBy
  <2> QED
    BY <1>1, <1>2, <2>1 DEF TypeOK
<1>4. JobsMatch'
  <2>1. \A i \in 1..Len(jobs) : jobs[i].by \in Threads \cup {Ros}
    <3>1. jobs \in Seq(JobType)
      BY DEF TypeOK, JobType
    <3>2. \A i \in 1..Len(jobs) : jobs[i] \in JobType
      BY <3>1
    <3> QED
      BY <3>2 DEF JobType
  <2> QED
    BY <1>1, <1>2, <2>1 DEF JobsMatch
<1>5. Alone' /\ Behind'
  BY <1>1, <1>2 DEF Alone, Busy, Behind, Past, Linked
<1>6. Answers' /\ Exact'
  BY <1>1, TalkUnchanged
<1> QED
  BY <1>3, <1>4, <1>5, <1>6

LEMMA CameraKeepsInv ==
  ASSUME Inv, Camera \/ Build \/ Push \/ Stop \/ UNCHANGED vars
  PROVE  Inv'
<1>1. CASE FrameArrives
  <2>2. CASE pipeline
    <3>1. /\ UNCHANGED <<media, negotiating, looping, talk, fed, jobs, waiting>>
          /\ ros = "idle" /\ ros' = "check"
      BY <1>1, <2>2 DEF FrameArrives
    <3>2. UNCHANGED <<pipeline, webrtcbin, remote, localDesc, pc, offer, crossed, answer, result>>
      BY <3>1 DEF media, talk, asked
    <3>3. Ros \notin waiting
      BY <3>1 DEF Inv, JobsMatch
    <3>4. TypeOK'
      <4>1. \A t \in waiting : AwaitedBy(t)' = AwaitedBy(t)
        BY <3>2, <3>3 DEF AwaitedBy
      <4> QED
        BY <3>1, <3>2, <4>1 DEF Inv, TypeOK
    <3>5. JobsMatch' /\ Alone' /\ Behind'
      BY <3>1, <3>2, <3>3 DEF Inv, JobsMatch, Alone, Busy, Behind, Past, Linked
    <3> QED
      BY <3>1, <3>2, <3>4, <3>5, TalkUnchanged DEF Inv
  <2>3. CASE ~pipeline
    BY <1>1, <2>3, FramePosts DEF FrameArrives
  <2> QED
    BY <2>2, <2>3
<1>2. CASE FrameCheck
  BY <1>2, FrameSteps DEF FrameCheck, Inv, TypeOK
<1>3. CASE FramePost
  BY <1>3, FramePosts DEF FramePost, Inv, TypeOK
<1>4. CASE FrameGivesUp
  BY <1>4, FrameSteps DEF FrameGivesUp, Inv, TypeOK
<1>5. CASE Build
  <2>1. UNCHANGED fed /\ ros' \in {ros, "check"} /\ jobs # <<>> /\ Head(jobs).do = "build"
    BY <1>5 DEF Build, Job
  <2> QED
    BY <1>5, <2>1, FrameJobRuns DEF Build, Inv, TypeOK
<1>6. CASE Push
  <2>1. fed' \in 0..1 /\ ros' \in {ros, "idle"} /\ jobs # <<>> /\ Head(jobs).do = "push"
    BY <1>6 DEF Push, Job, Inv, TypeOK
  <2>2. UNCHANGED <<pipeline, webrtcbin, remote, localDesc>>
    BY <1>6 DEF Push, media
  <2> QED
    BY <1>6, <2>1, <2>2, FrameJobRuns DEF Push, Inv, TypeOK
<1>7. CASE Stop
  BY <1>7, FrameSteps DEF Stop, camera, Inv, TypeOK
<1>8. CASE UNCHANGED vars
  BY <1>8, FrameSteps DEF vars, camera, Inv, TypeOK
<1> QED
  BY <1>1, <1>2, <1>3, <1>4, <1>5, <1>6, <1>7, <1>8 DEF Camera
-----------------------------------------------------------------------------
\* The offer threads.
LEMMA StartOfferKeepsInv ==
  ASSUME Inv, NEW t \in Threads, NEW o \in Offers, StartOffer(t, o)
  PROVE  Inv'
<1> USE DEF Inv
<1> DEFINE busy == {u \in Threads : pc[u] \notin {"idle", "done"}}
<1>1. /\ UNCHANGED <<pipeline, webrtcbin, remote, localDesc, negotiating, jobs, looping,
                     waiting, answer, result, ros, fed>>
      /\ pc[t] = "idle" /\ pc' = [pc EXCEPT ![t] = "begin"]
      /\ offer' = [offer EXCEPT ![t] = o]
      /\ crossed' = IF busy = {} THEN crossed ELSE crossed \cup busy \cup {t}
  BY DEF StartOffer, Goto, media, camera
<1>2. /\ pc'[t] = "begin" /\ offer'[t] = o
      /\ \A u \in Threads \ {t} : pc'[u] = pc[u] /\ offer'[u] = offer[u]
      /\ crossed \subseteq crossed' /\ crossed' \subseteq Threads /\ t \notin crossed
      /\ t \notin waiting
  BY <1>1, RosAssumption DEF TypeOK, Alone, JobsMatch, JobNames
<1>3. TypeOK'
  <2>1. \A u \in waiting : AwaitedBy(u)' = AwaitedBy(u)
    BY <1>1, <1>2 DEF AwaitedBy, TypeOK
  <2> QED
    BY <1>1, <1>2, <2>1 DEF TypeOK
<1>4. JobsMatch'
  <2>1. \A i \in 1..Len(jobs) : jobs[i].by # t
    BY <1>1, RosAssumption DEF JobsMatch
  <2>2. \A i \in 1..Len(jobs) : jobs[i].by \in Threads \cup {Ros}
    <3>1. jobs \in Seq(JobType)
      BY DEF TypeOK, JobType
    <3>2. \A i \in 1..Len(jobs) : jobs[i] \in JobType
      BY <3>1
    <3> QED
      BY <3>2 DEF JobType
  <2>3. \A i \in 1..Len(jobs) : jobs[i].by # Ros => pc'[jobs[i].by] = pc[jobs[i].by]
    BY <1>2, <2>1, <2>2
  <2>4. \A u \in waiting \ {Ros} : pc'[u] = pc[u]
    BY <1>2 DEF TypeOK
  <2> QED
    BY <1>1, <2>3, <2>4 DEF JobsMatch
<1>5. Alone'
  <2>1. \A u \in crossed' : pc'[u] # "idle"
    BY <1>1, <1>2 DEF Alone
  <2>2. \A u, v \in Threads : u # v /\ Busy(u)' /\ Busy(v)' => {u, v} \subseteq crossed'
    BY <1>1, <1>2 DEF Alone, Busy
  <2>3. \A u \in Threads \ crossed' : pc'[u] \in JobNames => negotiating'
    BY <1>1, <1>2 DEF Alone, JobNames
  <2> QED
    BY <2>1, <2>2, <2>3 DEF Alone
<1>6. \A u \in Threads : Past(u)' => u # t /\ Past(u) /\ pc'[u] = pc[u]
  BY <1>1, <1>2 DEF Past, Linked, JobNames
<1>7. Behind'
  BY <1>1, <1>2, <1>6 DEF Behind
<1>8. Answers'
  <2>1. \A u \in Threads \ {t} : Own(u) \subseteq Own(u)'
    BY <1>1, <1>2 DEF Own, TypeOK
  <2>2. answer[t] = None /\ result[t] = Pending
    BY <1>1 DEF Answers
  <2> QED
    BY <1>1, <1>2, <1>6, <2>1, <2>2 DEF Answers
<1>9. Exact'
  BY <1>1, <1>2, <1>6 DEF Exact
<1> QED
  BY <1>3, <1>4, <1>5, <1>7, <1>8, <1>9

LEMMA BeginKeepsInv == ASSUME Inv, NEW t \in Threads, Begin(t) PROVE Inv'
<1> USE DEF Inv
<1>1. /\ UNCHANGED <<pipeline, webrtcbin, remote, localDesc, jobs, looping, waiting, offer,
                     crossed, answer, ros, fed>>
      /\ pc[t] = "begin" /\ negotiating' = (negotiating \/ pipeline)
      /\ \A u \in Threads \ {t} : pc'[u] = pc[u] /\ result'[u] = result[u]
      /\ \/ pc'[t] = "prepare" /\ pipeline /\ result'[t] = result[t]
         \/ pc'[t] \in {"cleanup", "done"} /\ result'[t] = Failed
      /\ pc' \in [Threads -> {"idle", "begin", "cleanup", "done"} \cup JobNames]
      /\ result' \in [Threads -> Offers \cup {Pending, Failed}]
  BY DEF Begin, Goto, TypeOK, media, asked, camera, JobNames
<1>2. /\ t \notin waiting /\ \A i \in 1..Len(jobs) : jobs[i].by # t
      /\ \A i \in 1..Len(jobs) : jobs[i].by \in Threads \cup {Ros}
  <2>1. jobs \in Seq(JobType)
    BY DEF TypeOK, JobType
  <2>2. \A i \in 1..Len(jobs) : jobs[i] \in JobType
    BY <2>1
  <2> QED
    BY <1>1, <2>2, RosAssumption DEF JobsMatch, JobNames, JobType
<1>3. TypeOK'
  <2>1. \A u \in waiting : AwaitedBy(u)' = AwaitedBy(u)
    BY <1>1, <1>2 DEF AwaitedBy, TypeOK
  <2> QED
    BY <1>1, <2>1 DEF TypeOK
<1>4. JobsMatch'
  <2>1. \A i \in 1..Len(jobs) : jobs[i].by # Ros =>
           pc'[jobs[i].by] = pc[jobs[i].by] /\ result'[jobs[i].by] = result[jobs[i].by]
    BY <1>1, <1>2
  <2>2. \A u \in waiting \ {Ros} : pc'[u] = pc[u]
    BY <1>1, <1>2 DEF TypeOK
  <2> QED
    BY <1>1, <2>1, <2>2 DEF JobsMatch
<1>5. Alone'
  <2>1. \A u \in Threads : /\ Busy(u)' => Busy(u)
                           /\ pc'[u] = "idle" => pc[u] = "idle"
                           /\ pc'[u] \in JobNames => pc[u] \in JobNames \/ negotiating'
    BY <1>1 DEF Busy, TypeOK, JobNames
  <2>2. crossed \subseteq Threads
    BY DEF TypeOK
  <2>3. negotiating => negotiating'
    BY <1>1
  <2> QED
    BY <1>1, <2>1, <2>2, <2>3 DEF Alone
<1>6. \A u \in Threads : Past(u)' => u # t /\ Past(u)
  BY <1>1 DEF Past, Linked, JobNames
<1>7. Behind'
  BY <1>1, <1>6 DEF Behind
<1>8. \A u \in Threads : Own(u)' = Own(u)
  BY <1>1 DEF Own
<1>9. Answers'
  <2>1. Failed # Pending
    BY DEF Failed, Pending
  <2> QED
    BY <1>1, <1>6, <1>8, <2>1 DEF Answers
<1>10. Exact'
  BY <1>1, <1>6 DEF Exact
<1> QED
  BY <1>3, <1>4, <1>5, <1>7, <1>9, <1>10

LEMMA PostKeepsInv == ASSUME Inv, NEW t \in Threads, Post(t) PROVE Inv'
<1> USE DEF Inv
<1>1. /\ UNCHANGED <<pipeline, webrtcbin, remote, localDesc, negotiating, looping, pc, offer,
                     crossed, answer, result, ros, fed>>
      /\ pc[t] \in JobNames /\ t \notin waiting /\ t # Ros
      /\ waiting' = waiting \cup {t}
  BY RosAssumption DEF Post, Schedule, media, talk, asked, camera
<1>2. /\ jobs' \in Seq(JobType) /\ Len(jobs) \in Nat /\ Len(jobs') = Len(jobs) + 1
      /\ \A i \in 1..Len(jobs) : jobs'[i] = jobs[i]
      /\ jobs'[Len(jobs) + 1].by = t /\ jobs'[Len(jobs) + 1].do = pc[t]
  <2>1. jobs \in Seq(JobType) /\ [do |-> pc[t], by |-> t] \in JobType
    BY <1>1 DEF TypeOK, JobType
  <2> QED
    BY <2>1, Appended DEF Post, Schedule
<1>3. \A i \in 1..Len(jobs') : i \in 1..Len(jobs) \/ i = Len(jobs) + 1
  BY <1>2
<1>4. \A i \in 1..Len(jobs) : jobs[i].by # t
  BY <1>1 DEF JobsMatch
<1>5. TypeOK'
  <2>1. ASSUME NEW u \in waiting'
        PROVE  \E i \in 1..Len(jobs') : jobs'[i].by = u /\ jobs'[i].do = AwaitedBy(u)'
    <3>1. CASE u = t
      <4>1. Len(jobs) + 1 \in 1..Len(jobs') /\ AwaitedBy(t)' = pc[t]
        BY <1>1, <1>2 DEF AwaitedBy
      <4> QED
        BY <1>2, <3>1, <4>1
    <3>2. CASE u # t
      <4>1. PICK i \in 1..Len(jobs) : jobs[i].by = u /\ jobs[i].do = AwaitedBy(u)
        BY <1>1, <3>2 DEF TypeOK
      <4>2. AwaitedBy(u)' = AwaitedBy(u)
        BY <1>1 DEF AwaitedBy
      <4>3. i \in 1..Len(jobs') /\ jobs'[i] = jobs[i]
        BY <1>2
      <4> QED
        BY <4>1, <4>2, <4>3
    <3> QED
      BY <3>1, <3>2
  <2> QED
    BY <1>1, <1>2, <2>1 DEF TypeOK, JobType
<1>6. JobsMatch'
  <2>1. ASSUME NEW i \in 1..Len(jobs')
        PROVE  /\ jobs'[i].by = Ros <=> jobs'[i].do \in {"build", "push"}
               /\ jobs'[i].by # Ros =>
                     /\ pc[jobs'[i].by] \notin {"idle", "begin"}
                     /\ pc[jobs'[i].by] \in JobNames =>
                           jobs'[i].by \in waiting' /\ jobs'[i].do = pc[jobs'[i].by]
                     /\ pc[jobs'[i].by] \in {"cleanup", "done"} => result[jobs'[i].by] = Failed
    <3>1. CASE i \in 1..Len(jobs)
      BY <1>1, <1>2, <3>1 DEF JobsMatch
    <3>2. CASE i = Len(jobs) + 1
      BY <1>1, <1>2, <3>2 DEF JobNames
    <3> QED
      BY <1>3, <3>1, <3>2
  <2>2. \A i, j \in 1..Len(jobs') : jobs'[i].by = jobs'[j].by /\ jobs'[i].by # Ros => i = j
    BY <1>2, <1>3, <1>4 DEF JobsMatch
  <2> QED
    BY <1>1, <2>1, <2>2 DEF JobsMatch
<1>7. Alone'
  BY <1>1 DEF Alone, Busy
<1>8. Behind'
  <2>1. \A u \in Threads : u # t /\ Busy(u) => {u, t} \subseteq crossed
    BY <1>1 DEF Alone, Busy, JobNames
  <2>2. \A u \in Threads : Past(u)' <=> Past(u)
    BY <1>1 DEF Past, Linked
  <2>3. \A u \in Threads : Past(u) \/ u \in waiting => Busy(u)
    BY RosAssumption DEF Past, Linked, Busy, JobNames, JobsMatch
  <2>4. \A u \in Threads, i \in 1..Len(jobs') :
           Past(u)' /\ jobs'[i].by \notin {u, Ros} => {u, jobs'[i].by} \subseteq crossed
    BY <1>2, <1>3, <2>1, <2>2, <2>3 DEF Behind
  <2>5. ASSUME NEW i \in 1..Len(jobs'), NEW j \in 1..Len(jobs'), i < j,
               jobs'[i].do = "prepare", jobs'[i].by \in waiting',
               jobs'[j].by \notin {jobs'[i].by, Ros}
        PROVE  {jobs'[i].by, jobs'[j].by} \subseteq crossed
    <3>1. i \in 1..Len(jobs) /\ jobs'[i] = jobs[i] /\ jobs[i].by # t
      BY <1>2, <1>3, <1>4, <2>5
    <3>2. jobs[i].by \in Threads /\ jobs[i].by \in waiting
      BY <1>1, <2>5, <3>1 DEF JobsMatch, TypeOK
    <3>3. CASE j \in 1..Len(jobs)
      BY <1>2, <2>5, <3>1, <3>2, <3>3 DEF Behind
    <3>4. CASE j = Len(jobs) + 1
      BY <1>2, <2>1, <2>3, <3>1, <3>2, <3>4
    <3> QED
      BY <1>3, <3>3, <3>4
  <2> QED
    BY <1>1, <2>4, <2>5 DEF Behind
<1>9. Answers' /\ Exact'
  BY TalkUnchanged DEF Post, media
<1> QED
  BY <1>5, <1>6, <1>7, <1>8, <1>9

LEMMA GiveUpKeepsInv == ASSUME Inv, NEW t \in Threads, GiveUp(t) PROVE Inv'
<1> USE DEF Inv
<1>1. /\ UNCHANGED <<pipeline, webrtcbin, remote, localDesc, negotiating, jobs, looping, offer,
                     crossed, answer, ros, fed>>
      /\ pc[t] \in JobNames /\ t # Ros
      /\ pc' = [pc EXCEPT ![t] = "cleanup"]
      /\ result' = [result EXCEPT ![t] = Failed]
      /\ waiting' = waiting \ {t}
  BY RosAssumption DEF GiveUp, Goto, media, asked, camera
<1>2. /\ pc'[t] = "cleanup" /\ result'[t] = Failed
      /\ \A u \in Threads \ {t} : pc'[u] = pc[u] /\ result'[u] = result[u]
      /\ \A i \in 1..Len(jobs) : jobs[i].by \in Threads \cup {Ros}
  <2>1. jobs \in Seq(JobType)
    BY DEF TypeOK, JobType
  <2>2. \A i \in 1..Len(jobs) : jobs[i] \in JobType
    BY <2>1
  <2> QED
    BY <1>1, <2>2 DEF TypeOK, JobType
<1>3. TypeOK'
  <2>1. \A u \in waiting' : AwaitedBy(u)' = AwaitedBy(u)
    BY <1>1, <1>2 DEF AwaitedBy, TypeOK
  <2> QED
    BY <1>1, <2>1 DEF TypeOK
<1>4. JobsMatch'
  <2>1. ASSUME NEW i \in 1..Len(jobs), jobs[i].by # Ros
        PROVE  /\ pc'[jobs[i].by] \notin {"idle", "begin"}
               /\ pc'[jobs[i].by] \in JobNames =>
                     jobs[i].by \in waiting' /\ jobs[i].do = pc'[jobs[i].by]
               /\ pc'[jobs[i].by] \in {"cleanup", "done"} => result'[jobs[i].by] = Failed
    <3>1. CASE jobs[i].by = t
      BY <1>2, <3>1 DEF JobNames
    <3>2. CASE jobs[i].by # t
      BY <1>1, <1>2, <2>1, <3>2 DEF JobsMatch
    <3> QED
      BY <3>1, <3>2
  <2>2. \A u \in waiting' \ {Ros} : pc'[u] \in JobNames
    BY <1>1, <1>2 DEF JobsMatch, TypeOK
  <2> QED
    BY <1>1, <2>1, <2>2 DEF JobsMatch
<1>5. Alone'
  <2>1. \A u \in Threads : /\ Busy(u)' => Busy(u)
                           /\ pc'[u] = "idle" => pc[u] = "idle"
                           /\ pc'[u] \in JobNames => pc[u] \in JobNames
    BY <1>1, <1>2 DEF Busy, JobNames
  <2>2. crossed \subseteq Threads
    BY DEF TypeOK
  <2> QED
    BY <1>1, <2>1, <2>2 DEF Alone
<1>6. \A u \in Threads : Past(u)' => u # t /\ Past(u)
  BY <1>2 DEF Past, Linked, JobNames
<1>7. Behind'
  BY <1>1, <1>6 DEF Behind
<1>8. \A u \in Threads : Own(u)' = Own(u)
  BY <1>1 DEF Own
<1>9. Answers'
  <2>1. Failed # Pending /\ pc[t] # "idle"
    BY <1>1 DEF Failed, Pending, JobNames
  <2> QED
    BY <1>1, <1>2, <1>6, <1>8, <2>1 DEF Answers
<1>10. Exact'
  BY <1>1, <1>2, <1>6 DEF Exact
<1> QED
  BY <1>3, <1>4, <1>5, <1>7, <1>9, <1>10

LEMMA CleanupKeepsInv == ASSUME Inv, NEW t \in Threads, Cleanup(t) PROVE Inv'
<1> USE DEF Inv
<1>1. /\ UNCHANGED <<pipeline, webrtcbin, remote, localDesc, jobs, looping, waiting, offer,
                     crossed, answer, result, ros, fed>>
      /\ pc[t] = "cleanup" /\ negotiating' = FALSE
      /\ pc' = [pc EXCEPT ![t] = "done"]
  BY DEF Cleanup, Goto, media, asked, camera
<1>2. /\ pc'[t] = "done" /\ \A u \in Threads \ {t} : pc'[u] = pc[u]
      /\ \A i \in 1..Len(jobs) : jobs[i].by \in Threads \cup {Ros}
      /\ t \notin waiting
  <2>1. jobs \in Seq(JobType)
    BY DEF TypeOK, JobType
  <2>2. \A i \in 1..Len(jobs) : jobs[i] \in JobType
    BY <2>1
  <2> QED
    BY <1>1, <2>2, RosAssumption DEF TypeOK, JobType, JobsMatch, JobNames
<1>3. TypeOK'
  <2>1. \A u \in waiting : AwaitedBy(u)' = AwaitedBy(u)
    BY <1>1, <1>2 DEF AwaitedBy, TypeOK
  <2> QED
    BY <1>1, <2>1 DEF TypeOK
<1>4. JobsMatch'
  <2>1. ASSUME NEW i \in 1..Len(jobs), jobs[i].by # Ros
        PROVE  /\ pc'[jobs[i].by] \notin {"idle", "begin"}
               /\ pc'[jobs[i].by] \in JobNames =>
                     jobs[i].by \in waiting /\ jobs[i].do = pc'[jobs[i].by]
               /\ pc'[jobs[i].by] \in {"cleanup", "done"} => result[jobs[i].by] = Failed
    <3>1. CASE jobs[i].by = t
      BY <1>1, <1>2, <2>1, <3>1 DEF JobsMatch, JobNames
    <3>2. CASE jobs[i].by # t
      BY <1>2, <2>1, <3>2 DEF JobsMatch
    <3> QED
      BY <3>1, <3>2
  <2>2. \A u \in waiting \ {Ros} : pc'[u] \in JobNames
    BY <1>1, <1>2 DEF JobsMatch, TypeOK
  <2> QED
    BY <1>1, <2>1, <2>2 DEF JobsMatch
<1>5. Alone'
  <2>1. \A u \in Threads : /\ Busy(u)' => Busy(u) /\ u # t
                           /\ pc'[u] = "idle" => pc[u] = "idle"
    BY <1>1, <1>2 DEF Busy
  <2>2. \A u \in Threads \ crossed : pc'[u] \notin JobNames
    BY <1>1, <1>2 DEF Alone, Busy, JobNames
  <2>3. crossed \subseteq Threads
    BY DEF TypeOK
  <2> QED
    BY <1>1, <2>1, <2>2, <2>3 DEF Alone
<1>6. \A u \in Threads : Past(u)' => u # t /\ Past(u)
  BY <1>1, <1>2 DEF Past, Linked, JobNames
<1>7. Behind'
  BY <1>1, <1>6 DEF Behind
<1>8. \A u \in Threads : Own(u)' = Own(u)
  BY <1>1 DEF Own
<1>9. Answers'
  BY <1>1, <1>2, <1>6, <1>8 DEF Answers
<1>10. Exact'
  BY <1>1, <1>2, <1>6 DEF Exact
<1> QED
  BY <1>3, <1>4, <1>5, <1>7, <1>9, <1>10
-----------------------------------------------------------------------------
LEMMA InitInv == Init => Inv
<1> SUFFICES ASSUME Init PROVE Inv
  OBVIOUS
<1>1. /\ jobs = <<>> /\ Len(jobs) = 0 /\ jobs \in Seq(JobType) /\ waiting = {} /\ crossed = {}
      /\ \A t \in Threads : pc[t] = "idle" /\ answer[t] = None /\ result[t] = Pending
  BY DEF Init
<1>2. TypeOK
  <2>1. /\ remote \in [Threads -> Offers \cup {None}] /\ localDesc \in [Threads -> Offers \cup {None}]
        /\ offer \in [Threads -> Offers \cup {None}] /\ answer \in [Threads -> Offers \cup {None}]
    BY DEF Init
  <2>2. /\ pc \in [Threads -> {"idle", "begin", "cleanup", "done"} \cup JobNames]
        /\ result \in [Threads -> Offers \cup {Pending, Failed}]
    BY DEF Init
  <2>3. fed \in 0..1
    BY DEF Init
  <2> QED
    BY <1>1, <2>1, <2>2, <2>3 DEF Init, TypeOK, JobType
<1>3. JobsMatch /\ Alone /\ Behind
  BY <1>1 DEF JobsMatch, Alone, Behind, Busy, JobNames
<1>4. Answers /\ Exact
  BY <1>1 DEF Answers, Exact, Past, Linked, JobNames
<1> QED
  BY <1>2, <1>3, <1>4 DEF Inv

LEMMA NextKeepsInv == Inv /\ [Next]_vars => Inv'
<1> SUFFICES ASSUME Inv, [Next]_vars PROVE Inv'
  OBVIOUS
<1>1. ASSUME NEW t \in Threads, Thread(t) PROVE Inv'
  BY <1>1, BeginKeepsInv, PostKeepsInv, GiveUpKeepsInv, CleanupKeepsInv DEF Thread
<1>2. ASSUME NEW t \in Threads, NEW o \in Offers, StartOffer(t, o) PROVE Inv'
  BY <1>2, StartOfferKeepsInv
<1>3. CASE MainLoop
  BY <1>3, PrepareKeepsInv, SetRemoteKeepsInv, CreateAnswerKeepsInv, SetLocalKeepsInv,
     GatherKeepsInv, FinalKeepsInv, NoWebrtcbinKeepsInv, CameraKeepsInv DEF MainLoop
<1>4. CASE Camera \/ Stop \/ UNCHANGED vars
  BY <1>4, CameraKeepsInv
<1> QED
  BY <1>1, <1>2, <1>3, <1>4 DEF Next, Work

LEMMA InvAlways == Spec => []Inv
  BY InitInv, NextKeepsInv, PTL DEF Spec
-----------------------------------------------------------------------------
\* Every reachable state of the streamer is well typed, and no thread is
\* blocked on a job that nobody will run (video_streamer.py:121-143).
THEOREM TypeCorrectness == Spec => []TypeOK
<1>1. Inv => TypeOK
  BY DEF Inv
<1> QED
  BY <1>1, InvAlways, PTL

\* No frame is fed to the pipeline while a thread that is alone negotiates
\* (video_streamer.py:101-108).
THEOREM NoFrameDuringNegotiation == Spec => FramesHeldBack
<1> DEFINE HeldBack == fed' # fed => \A t \in Threads \ crossed : ~Linked(t)
<1>1. ASSUME Inv, [Next]_vars PROVE HeldBack
  <2> SUFFICES ASSUME fed' # fed PROVE \A t \in Threads \ crossed : ~Linked(t)
    OBVIOUS
  <2>1. Push
    BY <1>1 DEF vars, camera, Next, Work, Thread, MainLoop, Camera, StartOffer, Begin, Post,
       GiveUp, Cleanup, Prepare, SetRemote, CreateAnswer, SetLocal, Gather, Final, NoWebrtcbin,
       Succeed, Raise, JobDone, Build, Stop, FrameArrives, FrameCheck, FramePost, FrameGivesUp
  <2>2. ~negotiating
    BY <2>1 DEF Push
  <2> QED
    BY <1>1, <2>2 DEF Inv, Alone, Linked
<1>2. Spec => [][HeldBack]_vars
  BY <1>1, InvAlways, PTL DEF Spec
<1> QED
  BY <1>2 DEF FramesHeldBack
-----------------------------------------------------------------------------
\* No job starts a thread or ends one.
LEMMA JobEndsNobody ==
  ASSUME Inv, MainLoop
  PROVE  /\ UNCHANGED asked
         /\ \A t \in Threads : /\ pc'[t] = "idle" <=> pc[t] = "idle"
                               /\ pc'[t] = "done" <=> pc[t] = "done"
                               /\ pc[t] = "done" => result'[t] = result[t]
<1> USE DEF Inv
<1>1. CASE Build \/ Push
  <2>1. UNCHANGED talk
    BY <1>1 DEF Build, Push
  <2>2. UNCHANGED <<asked, pc, result>>
    BY <2>1 DEF talk
  <2> QED
    BY <2>2
<1>2. CASE ~(Build \/ Push)
  <2>1. jobs # <<>> /\ Head(jobs).do \in JobNames /\ UNCHANGED asked
    BY <1>2 DEF MainLoop, Prepare, SetRemote, CreateAnswer, SetLocal, Gather, Final,
                NoWebrtcbin, Succeed, Raise, JobDone, Job, JobNames
  <2>2. PICK c \in Threads : c = Caller
    BY <2>1, HeadJob
  <2>3. Await => pc[c] \in JobNames
    BY <2>1, <2>2 DEF Await
  <2>4. NextStep(Head(jobs).do) \in JobNames \cup {"cleanup"}
    BY <2>1 DEF NextStep, JobNames
  <2>5. \/ UNCHANGED <<pc, result>>
        \/ /\ Await
           /\ \E place \in JobNames \cup {"cleanup"} : pc' = [pc EXCEPT ![c] = place]
           /\ \A u \in Threads \ {c} : result'[u] = result[u]
    <3>1. CASE Raise
      BY <2>2, <3>1 DEF Raise, Goto, TypeOK
    <3>2. CASE Succeed /\ (result' = result \/ Final)
      <4>1. result' = result \/ (Await /\ \A u \in Threads \ {c} : result'[u] = result[u])
        BY <2>2, <3>2 DEF Final, TypeOK
      <4>2. pc' = pc \/ (Await /\ pc' = [pc EXCEPT ![c] = NextStep(Head(jobs).do)])
        BY <2>2, <3>2 DEF Succeed, Goto
      <4>3. Await => pc' = [pc EXCEPT ![c] = NextStep(Head(jobs).do)]
        BY <2>2, <3>2 DEF Succeed, Goto
      <4> QED
        BY <2>4, <4>1, <4>2, <4>3
    <3> QED
      BY <1>2, <3>1, <3>2 DEF MainLoop, Prepare, SetRemote, CreateAnswer, SetLocal, Gather,
         Final, NoWebrtcbin
  <2>6. \A t \in Threads : /\ pc'[t] = "idle" <=> pc[t] = "idle"
                           /\ pc'[t] = "done" <=> pc[t] = "done"
                           /\ pc[t] = "done" => result'[t] = result[t]
    BY <2>3, <2>5 DEF TypeOK, JobNames
  <2> QED
    BY <2>1, <2>6
<1> QED
  BY <1>1, <1>2

\* What an answer that was given out rests on.  As long as its webrtcbin is the
\* linked one nobody else works on a webrtcbin, and a job that is still scheduled
\* runs behind a "prepare", which links another.
Settled(t) == t \notin crossed /\ pc[t] = "done" /\ result[t] # Failed

Untouched(t) ==
    webrtcbin = t =>
        /\ \A u \in Threads : ~Past(u)
        /\ \A i \in 1..Len(jobs) :
              jobs[i].by # Ros => \E j \in 1..i : jobs[j].do = "prepare"

Stands ==
    \A t \in Threads : Settled(t) =>
        remote[t] = offer[t] /\ localDesc[t] = offer[t] /\ Untouched(t)

\* It is enough that a thread was settled before, that its webrtcbin is left
\* alone, and that what could reach it stays away.
LEMMA StandsOn ==
  ASSUME Inv, Stands, crossed \subseteq crossed',
         \A t \in Threads : Settled(t)' =>
            /\ pc[t] = "done" /\ result'[t] = result[t] /\ offer'[t] = offer[t]
            /\ Settled(t) => remote'[t] = remote[t] /\ localDesc'[t] = localDesc[t]
                             /\ (Untouched(t) => Untouched(t)')
  PROVE  Stands'
  BY DEF Stands, Settled

LEMMA JobKeepsStands == ASSUME Inv, Stands, MainLoop PROVE Stands'
<1> USE DEF Inv
<1>1. /\ crossed' = crossed /\ offer' = offer
      /\ \A t \in Threads : Settled(t)' => Settled(t) /\ result'[t] = result[t]
  BY JobEndsNobody DEF asked, Settled
<1>2. CASE Build \/ Push
  <2>1. /\ jobs # <<>> /\ Head(jobs).do \in {"build", "push"} /\ jobs' = Tail(jobs)
        /\ UNCHANGED <<webrtcbin, remote, localDesc, pc, result>>
    BY <1>2 DEF Build, Push, Job, media, talk
  <2>2. /\ Len(jobs) \in Nat \ {0} /\ Head(jobs) = jobs[1] /\ Len(jobs') = Len(jobs) - 1
        /\ \A i \in 1..Len(jobs') : i + 1 \in 1..Len(jobs) /\ jobs'[i] = jobs[i + 1]
    <3>1. jobs \in Seq(JobType)
      BY DEF TypeOK, JobType
    <3> QED
      BY <2>1, <3>1, Taken
  <2>3. \A u \in Threads : Past(u)' <=> Past(u)
    BY <2>1 DEF Past, Linked
  <2>4. ASSUME NEW t \in Threads, Untouched(t) PROVE Untouched(t)'
    <3> SUFFICES ASSUME webrtcbin = t, NEW i \in 1..Len(jobs'), jobs'[i].by # Ros
                 PROVE  \E j \in 1..i : jobs'[j].do = "prepare"
      BY <2>1, <2>3, <2>4 DEF Untouched
    <3>1. PICK j \in 1..(i + 1) : jobs[j].do = "prepare"
      BY <2>2, <2>4 DEF Untouched
    <3>2. j # 1
      BY <2>1, <2>2, <3>1
    <3>3. j - 1 \in 1..i /\ j - 1 \in 1..Len(jobs') /\ (j - 1) + 1 = j
      BY <2>2, <3>2
    <3>4. jobs'[j - 1] = jobs[j]
      BY <2>2, <3>3
    <3> QED
      BY <3>1, <3>3, <3>4
  <2> QED
    BY <1>1, <2>1, <2>4, StandsOn DEF Settled
<1>3. CASE ~(Build \/ Push)
  <2>1. jobs # <<>> /\ Head(jobs).do \in JobNames
    BY <1>3 DEF MainLoop, Prepare, SetRemote, CreateAnswer, SetLocal, Gather, Final,
                NoWebrtcbin, Job, JobNames
  <2>2. PICK c \in Threads : c = Caller /\ c # Ros /\ jobs[1].by = c /\ 1 \in 1..Len(jobs)
                             /\ Head(jobs) = jobs[1]
    BY <2>1, HeadJob DEF Caller
  <2>3. ASSUME NEW t \in Threads, Settled(t) PROVE c # t
    BY <2>2, <2>3 DEF Settled, JobsMatch
  <2>4. ASSUME NEW t \in Threads, Settled(t), webrtcbin = t PROVE Head(jobs).do = "prepare"
    <3>1. \E j \in 1..1 : jobs[j].do = "prepare"
      BY <2>2, <2>4 DEF Stands, Untouched
    <3> QED
      BY <2>2, <3>1
  <2>5. ASSUME NEW t \in Threads, Settled(t)
        PROVE  webrtcbin' # t /\ remote'[t] = remote[t] /\ localDesc'[t] = localDesc[t]
    <3>1. CASE Prepare
      BY <2>2, <2>3, <2>5, <3>1, OffersAssumption DEF Prepare, TypeOK
    <3>2. CASE ~Prepare
      <4>1. webrtcbin # t
        BY <1>3, <2>4, <2>5, <3>2 DEF MainLoop, SetRemote, CreateAnswer, SetLocal, Gather, Final,
                                      NoWebrtcbin, Job, JobNames
      <4>2. /\ webrtcbin' = webrtcbin
            /\ remote' = remote \/ \E x : remote' = [remote EXCEPT ![webrtcbin] = x]
            /\ localDesc' = localDesc \/ \E x : localDesc' = [localDesc EXCEPT ![webrtcbin] = x]
        BY <1>3, <3>2 DEF MainLoop, SetRemote, CreateAnswer, SetLocal, Gather, Final,
                          NoWebrtcbin, media
      <4> QED
        BY <4>1, <4>2 DEF TypeOK
    <3> QED
      BY <3>1, <3>2
  <2> QED
    BY <1>1, <2>5, StandsOn DEF Settled, Untouched
<1> QED
  BY <1>2, <1>3

LEMMA CleanupKeepsStands == ASSUME Inv, Stands, NEW t \in Threads, Cleanup(t) PROVE Stands'
<1> USE DEF Inv
<1>1. /\ UNCHANGED <<webrtcbin, remote, localDesc, jobs, offer, crossed, result>>
      /\ pc[t] = "cleanup" /\ pc' = [pc EXCEPT ![t] = "done"]
  BY DEF Cleanup, Goto, media, asked
<1>2. \A u \in Threads : Past(u)' => u # t /\ Past(u)
  BY <1>1 DEF Past, Linked, JobNames, TypeOK
<1>3. ASSUME NEW u \in Threads \ {t}, Settled(u)'
      PROVE  remote'[u] = offer'[u] /\ localDesc'[u] = offer'[u] /\ Untouched(u)'
  <2>1. Settled(u)
    BY <1>1, <1>3 DEF Settled, TypeOK
  <2> QED
    BY <1>1, <1>2, <2>1 DEF Stands, Untouched
<1>4. ASSUME Settled(t)'
      PROVE  remote'[t] = offer'[t] /\ localDesc'[t] = offer'[t] /\ Untouched(t)'
  <2>1. t \notin crossed /\ result[t] # Failed /\ Past(t)
    BY <1>1, <1>4 DEF Settled, Past
  <2>2. remote[t] = offer[t] /\ localDesc[t] = offer[t]
    BY <1>1, <2>1 DEF Exact
  <2>3. \A u \in Threads \ {t} : ~Past(u)
    BY <1>1, <2>1 DEF Alone, Busy, Past, Linked, JobNames
  <2>4. \A i \in 1..Len(jobs) : jobs[i].by = Ros
    <3>1. ASSUME NEW i \in 1..Len(jobs), jobs[i].by # Ros PROVE FALSE
      <4>1. jobs[i].by # t
        BY <1>1, <2>1, <3>1 DEF JobsMatch
      <4> QED
        BY <2>1, <3>1, <4>1 DEF Behind
    <3> QED
      BY <3>1
  <2> QED
    BY <1>1, <1>2, <2>2, <2>3, <2>4 DEF Untouched
<1> QED
  BY <1>3, <1>4 DEF Stands

\* The other steps schedule jobs at most, and nobody gets past "prepare".
LEMMA QuietKeepsStands ==
  ASSUME Inv, Stands, UNCHANGED <<webrtcbin, remote, localDesc>>, crossed \subseteq crossed',
         \A t \in Threads :
            /\ pc[t] = "done" => offer'[t] = offer[t] /\ result'[t] = result[t]
            /\ pc'[t] = "done" /\ result'[t] # Failed => pc[t] = "done"
            /\ Past(t)' => Past(t),
         \/ jobs' = jobs
         \/ \E job \in JobType : /\ jobs' = Append(jobs, job)
                                 /\ job.by \in Threads /\ ~Past(job.by) => job.do = "prepare"
  PROVE  Stands'
<1> USE DEF Inv
<1>1. ASSUME NEW t \in Threads, Untouched(t) PROVE Untouched(t)'
  <2> SUFFICES ASSUME webrtcbin = t, NEW i \in 1..Len(jobs'), jobs'[i].by # Ros
               PROVE  \E j \in 1..i : jobs'[j].do = "prepare"
    BY <1>1 DEF Untouched
  <2>1. CASE jobs' = jobs
    BY <1>1, <2>1 DEF Untouched
  <2>2. CASE jobs' # jobs
    <3>1. PICK job \in JobType : /\ jobs' = Append(jobs, job)
                                 /\ job.by \in Threads /\ ~Past(job.by) => job.do = "prepare"
      BY <2>2
    <3>2. /\ Len(jobs) \in Nat /\ Len(jobs') = Len(jobs) + 1 /\ jobs'[Len(jobs) + 1] = job
          /\ \A j \in 1..Len(jobs) : jobs'[j] = jobs[j]
      <4>1. jobs \in Seq(JobType)
        BY DEF TypeOK, JobType
      <4> QED
        BY <3>1, <4>1, Appended
    <3>3. CASE i \in 1..Len(jobs)
      <4>1. PICK j \in 1..i : jobs[j].do = "prepare"
        BY <1>1, <3>2, <3>3 DEF Untouched
      <4>2. j \in 1..Len(jobs)
        BY <3>2, <3>3
      <4> QED
        BY <3>2, <4>1, <4>2
    <3>4. CASE i = Len(jobs) + 1
      <4>1. job.by \in Threads
        BY <3>2, <3>4 DEF JobType
      <4>2. job.do = "prepare"
        BY <1>1, <3>1, <4>1 DEF Untouched
      <4> QED
        BY <3>2, <3>4, <4>2
    <3> QED
      BY <3>2, <3>3, <3>4
  <2> QED
    BY <2>1, <2>2
<1> QED
  BY <1>1, StandsOn DEF Settled

LEMMA ThreadKeepsStands ==
  ASSUME Inv, Stands, NEW t \in Threads, Begin(t) \/ Post(t) \/ GiveUp(t)
  PROVE  Stands'
<1> USE DEF Inv
<1>1. UNCHANGED <<webrtcbin, remote, localDesc, offer, crossed>>
  BY DEF Begin, Post, GiveUp, media, talk, asked
<1>2. CASE Begin(t) \/ GiveUp(t)
  <2>1. /\ jobs' = jobs /\ pc[t] \notin {"idle", "done"}
        /\ \/ pc' = [pc EXCEPT ![t] = "prepare"] /\ result' = result
           \/ \E place \in {"cleanup", "done"} :
                 pc' = [pc EXCEPT ![t] = place] /\ result' = [result EXCEPT ![t] = Failed]
    BY <1>2 DEF Begin, GiveUp, Goto, JobNames
  <2>2. \A u \in Threads :
           /\ pc[u] = "done" => offer'[u] = offer[u] /\ result'[u] = result[u]
           /\ pc'[u] = "done" /\ result'[u] # Failed => pc[u] = "done"
           /\ Past(u)' => Past(u)
    BY <1>1, <2>1 DEF TypeOK, Past, Linked, JobNames
  <2> QED
    BY <1>1, <2>1, <2>2, QuietKeepsStands
<1>3. CASE Post(t)
  <2>1. /\ UNCHANGED <<pc, result>> /\ pc[t] \in JobNames
        /\ jobs' = Append(jobs, [do |-> pc[t], by |-> t])
    BY <1>3 DEF Post, Schedule, talk
  <2>2. ~Past(t) => pc[t] = "prepare"
    BY <2>1 DEF Past, Linked
  <2>3. [do |-> pc[t], by |-> t] \in JobType
    BY <2>1 DEF JobType
  <2>4. \A u \in Threads : Past(u)' <=> Past(u)
    BY <2>1 DEF Past, Linked
  <2> QED
    BY <1>1, <2>1, <2>2, <2>3, <2>4, QuietKeepsStands
<1> QED
  BY <1>2, <1>3

LEMMA OthersKeepStands ==
  ASSUME Inv, Stands,
         \/ Camera \/ Stop \/ UNCHANGED vars
         \/ \E t \in Threads, o \in Offers : StartOffer(t, o)
  PROVE  Stands'
<1> USE DEF Inv
<1>1. CASE Camera \/ Stop \/ UNCHANGED vars
  <2>1. UNCHANGED <<webrtcbin, remote, localDesc, offer, crossed, pc, result>>
    BY <1>1 DEF Camera, FrameArrives, FrameCheck, FramePost, FrameGivesUp, Stop, vars, media,
                talk, asked
  <2>2. jobs' = jobs \/ \E name \in {"build", "push"} :
                           jobs' = Append(jobs, [do |-> name, by |-> Ros])
    BY <1>1 DEF Camera, FrameArrives, FrameCheck, FramePost, FrameGivesUp, Stop, vars, Schedule
  <2>3. \A name \in {"build", "push"} : [do |-> name, by |-> Ros] \in JobType
    BY DEF JobType
  <2>4. \A u \in Threads : Past(u)' <=> Past(u)
    BY <2>1 DEF Past, Linked
  <2> QED
    BY <2>1, <2>2, <2>3, <2>4, QuietKeepsStands, RosAssumption
<1>2. ASSUME NEW t \in Threads, NEW o \in Offers, StartOffer(t, o) PROVE Stands'
  <2>1. /\ UNCHANGED <<webrtcbin, remote, localDesc, jobs, result>> /\ crossed \subseteq crossed'
        /\ pc[t] = "idle" /\ pc' = [pc EXCEPT ![t] = "begin"]
        /\ offer' = [offer EXCEPT ![t] = o]
    BY <1>2 DEF StartOffer, Goto, media
  <2>2. \A u \in Threads :
           /\ pc[u] = "done" => offer'[u] = offer[u] /\ result'[u] = result[u]
           /\ pc'[u] = "done" => pc[u] = "done"
           /\ Past(u)' => Past(u)
    BY <2>1 DEF TypeOK, Past, Linked, JobNames
  <2> QED
    BY <2>1, <2>2, QuietKeepsStands
<1> QED
  BY <1>1, <1>2

LEMMA StandsAlways == Spec => []Stands
<1>1. Init => Stands
  BY DEF Init, Stands, Settled
<1>2. Inv /\ Stands /\ [Next]_vars => Stands'
  <2> SUFFICES ASSUME Inv, Stands, [Next]_vars PROVE Stands'
    OBVIOUS
  <2> QED
    BY JobKeepsStands, CleanupKeepsStands, ThreadKeepsStands, OthersKeepStands
    DEF Next, Work, Thread
<1> QED
  BY <1>1, <1>2, InvAlways, PTL DEF Spec

\* An offer that was handled alone is answered from its own webrtcbin, and the
\* webrtcbin keeps the offer and that answer, whatever jobs were left in the
\* main loop's queue and whatever comes later (video_streamer.py:438-558).
THEOREM AnswersAreForTheirOffers == Spec => []AnswerIsForOffer
<1>1. ASSUME Inv, Stands PROVE AnswerIsForOffer
  <2> SUFFICES ASSUME NEW t \in Threads \ crossed,
                      pc[t] \in {"cleanup", "done"}, result[t] # Failed
               PROVE  /\ result[t] = offer[t]
                      /\ remote[t] = offer[t] /\ localDesc[t] = offer[t]
                      /\ pc[t] = "cleanup" => webrtcbin = t
    BY DEF AnswerIsForOffer
  <2>1. CASE pc[t] = "cleanup"
    BY <1>1, <2>1 DEF Inv, Exact, Past
  <2>2. CASE pc[t] = "done"
    <3>1. result[t] = offer[t]
      BY <1>1, <2>2 DEF Inv, Answers, Own
    <3> QED
      BY <1>1, <2>2, <3>1 DEF Stands, Settled
  <2> QED
    BY <2>1, <2>2
<1> QED
  BY <1>1, InvAlways, StandsAlways, PTL

LEMMA StepKeepsFlagOwned == ASSUME Inv, FlagHasOwner, [Next]_vars PROVE FlagHasOwner'
<1> USE DEF Inv
<1> DEFINE Owner(t) == pc[t] \in JobNames \cup {"cleanup"}
<1>1. ASSUME negotiating' => negotiating, \A u \in Threads : Owner(u) => Owner(u)'
      PROVE  FlagHasOwner'
  BY <1>1 DEF FlagHasOwner
<1>2. ASSUME NEW t \in Threads, Begin(t) PROVE FlagHasOwner'
  <2>1. CASE pipeline
    <3>1. Owner(t)'
      BY <1>2, <2>1 DEF Begin, Goto, TypeOK, JobNames
    <3> QED
      BY <3>1 DEF FlagHasOwner
  <2>2. CASE ~pipeline
    <3>1. pc[t] = "begin" /\ pc' = [pc EXCEPT ![t] = "done"]
      BY <1>2, <2>2 DEF Begin, Goto
    <3>2. negotiating' => negotiating
      BY <1>2, <2>2 DEF Begin
    <3>3. \A u \in Threads : Owner(u) => Owner(u)'
      BY <3>1 DEF TypeOK, JobNames
    <3> QED
      BY <1>1, <3>2, <3>3
  <2> QED
    BY <2>1, <2>2 DEF TypeOK
<1>3. ASSUME NEW t \in Threads, Cleanup(t) PROVE FlagHasOwner'
  BY <1>3 DEF Cleanup, FlagHasOwner
<1>4. ASSUME NEW t \in Threads, Post(t) \/ GiveUp(t) PROVE FlagHasOwner'
  <2>1. negotiating' = negotiating /\ \A u \in Threads : Owner(u) => Owner(u)'
    BY <1>4 DEF Post, GiveUp, Goto, talk, TypeOK
  <2> QED
    BY <2>1, <1>1
<1>5. ASSUME NEW t \in Threads, NEW o \in Offers, StartOffer(t, o) PROVE FlagHasOwner'
  <2>1. negotiating' = negotiating /\ \A u \in Threads : Owner(u) => Owner(u)'
    BY <1>5 DEF StartOffer, Goto, TypeOK, JobNames
  <2> QED
    BY <2>1, <1>1
<1>6. CASE MainLoop
  <2>1. negotiating' = negotiating
    BY <1>6 DEF MainLoop, Prepare, SetRemote, CreateAnswer, SetLocal, Gather, Final, NoWebrtcbin,
                Build, Push, Succeed, Raise, JobDone
  <2>2. CASE Build \/ Push
    BY <2>1, <2>2, <1>1 DEF Build, Push, talk
  <2>3. CASE ~(Build \/ Push)
    <3>1. jobs # <<>> /\ Head(jobs).do \in JobNames /\ (Succeed \/ Raise)
      BY <1>6, <2>3 DEF MainLoop, Prepare, SetRemote, CreateAnswer, SetLocal, Gather, Final,
                        NoWebrtcbin, Job, JobNames
    <3>2. Caller \in Threads /\ NextStep(Head(jobs).do) \in JobNames \cup {"cleanup"}
      BY <3>1, HeadJob DEF NextStep, JobNames
    <3>3. pc' = pc \/ \E place \in JobNames \cup {"cleanup"} : pc' = [pc EXCEPT ![Caller] = place]
      BY <3>1, <3>2 DEF Succeed, Raise, Goto
    <3>4. \A u \in Threads : Owner(u) => Owner(u)'
      BY <3>2, <3>3 DEF TypeOK
    <3> QED
      BY <2>1, <3>4, <1>1
  <2> QED
    BY <2>2, <2>3
<1>7. CASE Camera \/ Stop \/ UNCHANGED vars
  <2>1. negotiating' = negotiating /\ pc' = pc
    BY <1>7 DEF Camera, FrameArrives, FrameCheck, FramePost, FrameGivesUp, Stop, vars, talk
  <2> QED
    BY <2>1, <1>1
<1> QED
  BY <1>2, <1>3, <1>4, <1>5, <1>6, <1>7 DEF Next, Work, Thread

\* The flag that drops the camera's frames is never left up by a thread that is
\* gone (video_streamer.py:552-558).
THEOREM FlagIsAlwaysOwned == Spec => []FlagHasOwner
<1>1. Init => FlagHasOwner
  BY DEF Init, FlagHasOwner
<1> QED
  BY <1>1, StepKeepsFlagOwned, InvAlways, PTL DEF Spec
-----------------------------------------------------------------------------
\* What the rest of the video path sees of a thread.
Seen == [t \in Threads |-> CASE pc[t] = "idle" -> "idle"
                             [] pc[t] = "done" -> result[t]
                             [] OTHER -> Pending]

LEMMA SeenValues ==
  ASSUME TypeOK, NEW t \in Threads
  PROVE  /\ pc[t] = "idle" => Seen[t] = "idle"
         /\ pc[t] = "done" => Seen[t] = result[t]
         /\ Busy(t) => Seen[t] = Pending
  BY DEF Seen, Busy

\* Nothing is seen of a step that ends no thread and starts none.
LEMMA SeenUnchanged ==
  ASSUME Inv, UNCHANGED asked,
         \A t \in Threads : /\ pc'[t] = "idle" <=> pc[t] = "idle"
                            /\ pc'[t] = "done" <=> pc[t] = "done"
                            /\ pc[t] = "done" => result'[t] = result[t]
  PROVE  UNCHANGED <<offer, crossed, Seen>>
<1>1. Seen' = Seen
  BY DEF Seen
<1> QED
  BY <1>1 DEF asked

LEMMA JobUnseen ==
  ASSUME Inv, MainLoop
  PROVE  UNCHANGED <<offer, crossed, Seen>>
  BY JobEndsNobody, SeenUnchanged

LEMMA StartRefines ==
  ASSUME Inv, NEW t \in Threads, NEW o \in Offers, StartOffer(t, o)
  PROVE  Promise!Start(t, o)
<1> USE DEF Inv
<1>1. /\ pc[t] = "idle" /\ pc' = [pc EXCEPT ![t] = "begin"] /\ result' = result
      /\ offer' = [offer EXCEPT ![t] = o]
  BY DEF StartOffer, Goto
<1>2. Seen[t] = "idle" /\ Seen' = [Seen EXCEPT ![t] = Pending]
  BY <1>1 DEF Seen, TypeOK
<1>3. {u \in Threads : Seen[u] = Pending} = {u \in Threads : pc[u] \notin {"idle", "done"}}
  <2>1. ASSUME NEW u \in Threads PROVE Seen[u] = Pending <=> pc[u] \notin {"idle", "done"}
    <3>1. pc[u] = "done" => result[u] # Pending
      BY DEF Answers
    <3>2. "idle" # Pending
      BY DEF Pending
    <3> QED
      BY <3>1, <3>2, SeenValues DEF Busy
  <2> QED
    BY <2>1
<1> QED
  BY <1>1, <1>2, <1>3 DEF StartOffer, Promise!Start, Seen

\* A step of the streamer's own ends a thread or is not seen.
LEMMA WorkRefines ==
  ASSUME Inv, Work
  PROVE  (\E t \in Threads : Promise!Finish(t)) \/ UNCHANGED <<offer, crossed, Seen>>
<1> USE DEF Inv
<1>1. ASSUME NEW t \in Threads, pc[t] # "idle", Busy(t), pc' = [pc EXCEPT ![t] = "done"],
             \A u \in Threads \ {t} : result'[u] = result[u],
             result'[t] \in Own(t) \cup {Failed}, UNCHANGED asked
      PROVE  Promise!Finish(t)
  <2>1. Seen[t] = Pending
    BY <1>1, SeenValues
  <2>2. Seen' = [Seen EXCEPT ![t] = result'[t]]
    BY <1>1 DEF Seen, TypeOK
  <2>3. Promise!Results(t) = Own(t) \cup {Failed}
    BY DEF Promise!Results, Own
  <2> QED
    BY <1>1, <2>1, <2>2, <2>3 DEF Promise!Finish, Seen, asked
<1>2. ASSUME NEW t \in Threads, Begin(t)
      PROVE  Promise!Finish(t) \/ UNCHANGED <<offer, crossed, Seen>>
  <2>1. /\ UNCHANGED asked /\ pc[t] = "begin"
        /\ \/ pc' = [pc EXCEPT ![t] = "prepare"] /\ result' = result
           \/ pc' = [pc EXCEPT ![t] = "cleanup"] /\ result' = [result EXCEPT ![t] = Failed]
           \/ pc' = [pc EXCEPT ![t] = "done"] /\ result' = [result EXCEPT ![t] = Failed]
    BY <1>2 DEF Begin, Goto
  <2>2. CASE pc' = [pc EXCEPT ![t] = "done"] /\ result' = [result EXCEPT ![t] = Failed]
    <3>1. /\ pc[t] # "idle" /\ Busy(t)
          /\ result'[t] = Failed /\ \A u \in Threads \ {t} : result'[u] = result[u]
      BY <2>1, <2>2 DEF Busy, TypeOK
    <3> QED
      BY <1>1, <2>1, <2>2, <3>1
  <2>3. CASE ~(pc' = [pc EXCEPT ![t] = "done"] /\ result' = [result EXCEPT ![t] = Failed])
    <3>1. \/ pc' = [pc EXCEPT ![t] = "prepare"] /\ result' = result
          \/ pc' = [pc EXCEPT ![t] = "cleanup"] /\ result' = [result EXCEPT ![t] = Failed]
      BY <2>1, <2>3
    <3>2. \A u \in Threads : /\ pc'[u] = "idle" <=> pc[u] = "idle"
                             /\ pc'[u] = "done" <=> pc[u] = "done"
                             /\ pc[u] = "done" => result'[u] = result[u]
      BY <2>1, <3>1 DEF TypeOK
    <3> QED
      <4>1. UNCHANGED asked
        BY <2>1
      <4> QED
        BY <3>2, <4>1, SeenUnchanged
  <2> QED
    BY <2>1, <2>2, <2>3
<1>3. ASSUME NEW t \in Threads, Post(t) \/ GiveUp(t) PROVE UNCHANGED <<offer, crossed, Seen>>
  <2>1. /\ UNCHANGED asked /\ pc[t] \in JobNames
        /\ \/ UNCHANGED <<pc, result>>
           \/ pc' = [pc EXCEPT ![t] = "cleanup"] /\ result' = [result EXCEPT ![t] = Failed]
    BY <1>3 DEF Post, GiveUp, Goto, talk
  <2> QED
    BY <2>1, SeenUnchanged DEF TypeOK, JobNames
<1>4. ASSUME NEW t \in Threads, Cleanup(t) PROVE Promise!Finish(t)
  <2>1. /\ pc[t] = "cleanup" /\ pc' = [pc EXCEPT ![t] = "done"] /\ result' = result
        /\ UNCHANGED asked
    BY <1>4 DEF Cleanup, Goto
  <2>2. result[t] \in Own(t) \cup {Failed}
    BY <2>1 DEF Answers
  <2> QED
    BY <1>1, <2>1, <2>2 DEF Busy
<1>5. CASE Camera \/ Stop
  <2>1. UNCHANGED talk
    BY <1>5 DEF Camera, FrameArrives, FrameCheck, FramePost, FrameGivesUp, Stop
  <2>2. UNCHANGED <<asked, pc, result>>
    BY <2>1 DEF talk
  <2> QED
    BY <2>2, SeenUnchanged
<1>6. CASE \E t \in Threads : Thread(t)
  BY <1>2, <1>3, <1>4, <1>6 DEF Thread
<1> QED
  BY <1>5, <1>6, JobUnseen DEF Work

LEMMA StepRefines ==
  ASSUME Inv, [Next]_vars
  PROVE  [Promise!Next]_(Promise!vars)
<1>1. UNCHANGED <<offer, crossed, Seen>> => UNCHANGED Promise!vars
  BY DEF Promise!vars, Seen
<1>2. CASE Work
  BY <1>1, <1>2, WorkRefines DEF Promise!Next
<1>3. ASSUME NEW t \in Threads, NEW o \in Offers, StartOffer(t, o) PROVE Promise!Next
  BY <1>3, StartRefines DEF Promise!Next
<1>4. CASE UNCHANGED vars
  <2>1. UNCHANGED <<offer, crossed, pc, result>>
    BY <1>4 DEF vars, talk, asked
  <2> QED
    BY <1>1, <2>1 DEF Seen
<1> QED
  BY <1>2, <1>3, <1>4 DEF Next

\* Every thread ends with the answer to its own offer, to one that was handled
\* at the same time, or with a failure: the robot that CameraPath builds on
\* (agent.py:234-268).
THEOREM StreamerImplementsNegotiation == Spec => ImplementsNegotiation
<1>1. Init => Promise!Init
  <2> SUFFICES ASSUME Init PROVE Promise!Init
    OBVIOUS
  <2>1. offer = [t \in Threads |-> None] /\ crossed = {} /\ Seen = [t \in Threads |-> "idle"]
    BY DEF Init, Seen
  <2> QED
    BY <2>1 DEF Promise!Init, Seen
<1> QED
  BY <1>1, StepRefines, InvAlways, PTL DEF Spec, ImplementsNegotiation, Promise!Spec
=============================================================================
