------------------------ MODULE SharedEndpointProofs ------------------------
(***************************************************************************)
(* Proofs about SharedEndpoint, for any set of entries: what each variable *)
(* holds, that the queue and the tasks at work agree, and that a socket is *)
(* retained only under the policy.                                         *)
(***************************************************************************)
EXTENDS SharedEndpoint, SequenceTheorems, TLAPS

AllTasks == Entries \X {"work", "user"}

NoDuplicates(s) == \A i, j \in 1 .. Len(s) : s[i] = s[j] => i = j

OneUser(s) ==
  \A i, j \in 1 .. Len(s) : s[i][2] = "user" /\ s[j][2] = "user" => i = j

(* Each task waits or holds once, and no two users' operations do.         *)
QueueOK ==
  /\ queue \in Seq(AllTasks)
  /\ NoDuplicates(queue)
  /\ OneUser(queue)

(* Whoever talks to the device holds the lock, for work, a command or a    *)
(* detection; an entry's probes belong to its setup.                       *)
Requester(e) ==
  \/ Holds(<<e, "work">>)
  \/ Holds(<<e, "user">>) /\ user \in {"command", "redetect"}

RequestingOK ==
  /\ requesting => \E e \in Entries : Requester(e)
  /\ \A e \in Entries : work[e] = "probe" => life[e] = "starting"

(* The policy under which an entry may retain its socket.                  *)
Policy(e) == keep[e] /\ session[e] /\ configured = {e}

UserTalks(e) == requesting /\ Holds(<<e, "user">>)

(* Since the policy last changed: a poll that was told to keep its socket  *)
(* was told so under this policy, setup has nothing else to open a socket, *)
(* and between polls and requests only the policy leaves one open.         *)
SettledFor(e) ==
  settled[e] =>
    /\ keepOpen[e] => Policy(e)
    /\ life[e] = "starting" => work[e] = "poll"
    /\ sock[e] /\ work[e] # "poll" /\ ~UserTalks(e) => Policy(e)

SettledOK == \A e \in Entries : SettledFor(e)

EndpointInv == TypeOK /\ QueueOK /\ RequestingOK /\ SettledOK

-----------------------------------------------------------------------------
(* TypeOK in two: what each variable holds, and who is in the queue.       *)
Shapes ==
  /\ configured \subseteq Entries
  /\ life \in [Entries -> {"unloaded", "starting", "loaded"}]
  /\ work \in [Entries -> {"none", "probe", "poll"}]
  /\ user \in Operations \cup {"none"}
  /\ keep \in [Entries -> BOOLEAN] /\ session \in [Entries -> BOOLEAN]
  /\ sock \in [Entries -> BOOLEAN] /\ keepOpen \in [Entries -> BOOLEAN]
  /\ settled \in [Entries -> BOOLEAN]
  /\ requesting \in BOOLEAN

WorkQueued ==
  \A e \in Entries : work[e] = "none" <=> <<e, "work">> \notin ToSet(queue)

UserQueued ==
  user = "none" <=> \A e \in Entries : <<e, "user">> \notin ToSet(queue)

LEMMA TypeSplit == TypeOK <=> Shapes /\ WorkQueued /\ UserQueued
BY DEF TypeOK, Shapes, WorkQueued, UserQueued

(* The members of a sequence, and what becomes of them when one joins at   *)
(* its end or the first one leaves.                                        *)
LEMMA Members ==
  ASSUME NEW s \in Seq(AllTasks), NEW x
  PROVE  x \in ToSet(s) <=> \E i \in 1 .. Len(s) : s[i] = x
BY DEF ToSet

LEMMA Joined ==
  ASSUME NEW s \in Seq(AllTasks), NoDuplicates(s), OneUser(s),
         NEW task \in AllTasks, task \notin ToSet(s),
         task[2] = "user" => \A i \in 1 .. Len(s) : s[i][2] # "user"
  PROVE  /\ Append(s, task) \in Seq(AllTasks)
         /\ NoDuplicates(Append(s, task))
         /\ OneUser(Append(s, task))
         /\ \A x : x \in ToSet(Append(s, task)) <=> x = task \/ x \in ToSet(s)
<1> DEFINE u == Append(s, task)
<1>1. /\ u \in Seq(AllTasks) /\ Len(u) = Len(s) + 1 /\ Len(s) \in Nat
      /\ \A i \in 1 .. Len(s) : u[i] = s[i]
      /\ u[Len(s) + 1] = task
  BY AppendProperties, LenProperties
<1> HIDE DEF u
<1>2. \A i \in 1 .. Len(u) : i = Len(s) + 1 \/ i \in 1 .. Len(s)
  BY <1>1
<1>3. \A i \in 1 .. Len(s) : s[i] # task
  BY Members
<1>4. NoDuplicates(u)
  BY <1>1, <1>2, <1>3 DEF NoDuplicates
<1>5. OneUser(u)
  BY <1>1, <1>2 DEF OneUser
<1>6. ASSUME NEW x PROVE x \in ToSet(u) <=> x = task \/ x \in ToSet(s)
  <2>1. Len(s) + 1 \in 1 .. Len(u) /\ 1 .. Len(s) \subseteq 1 .. Len(u)
    BY <1>1
  <2>2. QED
    BY <1>1, <1>2, <2>1, Members
<1>7. QED
  BY <1>1, <1>4, <1>5, <1>6 DEF u

LEMMA Left ==
  ASSUME NEW s \in Seq(AllTasks), s # <<>>, NoDuplicates(s), OneUser(s)
  PROVE  /\ Tail(s) \in Seq(AllTasks)
         /\ NoDuplicates(Tail(s))
         /\ OneUser(Tail(s))
         /\ \A x : x \in ToSet(Tail(s)) <=> x # Head(s) /\ x \in ToSet(s)
         /\ Head(s)[2] = "user"
              => \A e \in Entries : <<e, "user">> \notin ToSet(Tail(s))
<1> DEFINE u == Tail(s)
<1>1. /\ u \in Seq(AllTasks) /\ Len(u) = Len(s) - 1 /\ Len(s) \in Nat \ {0}
      /\ \A i \in 1 .. Len(u) : u[i] = s[i + 1]
      /\ Head(s) = s[1]
  BY HeadTailProperties, EmptySeq
<1> HIDE DEF u
<1>2. \A i \in 1 .. Len(u) : i + 1 \in 2 .. Len(s) /\ i + 1 \in 1 .. Len(s)
  BY <1>1
<1>3. NoDuplicates(u)
  BY <1>1, <1>2 DEF NoDuplicates
<1>4. OneUser(u)
  <2> SUFFICES ASSUME NEW i \in 1 .. Len(u), NEW j \in 1 .. Len(u),
                      u[i][2] = "user", u[j][2] = "user"
               PROVE  i = j
    BY DEF OneUser
  <2>1. s[i + 1][2] = "user" /\ s[j + 1][2] = "user"
    BY <1>1
  <2>2. i + 1 = j + 1
    BY <1>2, <2>1 DEF OneUser
  <2>3. QED
    BY <1>1, <2>2
<1>5. ASSUME NEW x PROVE x \in ToSet(u) <=> \E i \in 2 .. Len(s) : s[i] = x
  <2>1. ASSUME NEW j \in 2 .. Len(s), s[j] = x PROVE x \in ToSet(u)
    <3>1. j - 1 \in 1 .. Len(u) /\ (j - 1) + 1 = j
      BY <1>1
    <3>2. u[j - 1] = x
      BY <1>1, <2>1, <3>1
    <3>3. QED
      BY <1>1, <3>1, <3>2, Members
  <2>2. ASSUME x \in ToSet(u) PROVE \E i \in 2 .. Len(s) : s[i] = x
    <3>1. PICK i \in 1 .. Len(u) : u[i] = x
      BY <1>1, <2>2, Members
    <3>2. QED
      BY <1>1, <1>2, <3>1
  <2>3. QED
    BY <2>1, <2>2
<1>6. ASSUME NEW x PROVE x \in ToSet(u) <=> x # Head(s) /\ x \in ToSet(s)
  <2>1. /\ 1 \in 1 .. Len(s)
        /\ \A i \in 1 .. Len(s) : i = 1 \/ i \in 2 .. Len(s)
        /\ \A i \in 2 .. Len(s) : i # 1 /\ i \in 1 .. Len(s)
    BY <1>1
  <2>2. QED
    BY <1>1, <1>5, <2>1, Members DEF NoDuplicates
<1>7. ASSUME Head(s)[2] = "user", NEW e \in Entries
      PROVE  <<e, "user">> \notin ToSet(u)
  <2>1. 1 \in 1 .. Len(s) /\ \A i \in 2 .. Len(s) : i # 1 /\ i \in 1 .. Len(s)
    BY <1>1
  <2>2. QED
    BY <1>1, <1>5, <1>7, <2>1 DEF OneUser
<1>8. QED
  BY <1>1, <1>3, <1>4, <1>6, <1>7 DEF u

-----------------------------------------------------------------------------
(* What joining and leaving the queue do to who is in it.                  *)
LEMMA WorkWaits ==
  ASSUME QueueOK, WorkQueued, UserQueued, Shapes, NEW e \in Entries,
         work[e] = "none", NEW kind \in {"probe", "poll"},
         work' = [work EXCEPT ![e] = kind], Wait(<<e, "work">>), UNCHANGED user
  PROVE  QueueOK' /\ WorkQueued' /\ UserQueued'
<1>1. <<e, "work">> \in AllTasks /\ <<e, "work">> \notin ToSet(queue)
  BY DEF AllTasks, WorkQueued
<1>2. queue' = Append(queue, <<e, "work">>)
  BY DEF Wait
<1>3. /\ QueueOK'
      /\ \A x : x \in ToSet(queue') <=> x = <<e, "work">> \/ x \in ToSet(queue)
  BY <1>1, <1>2, Joined DEF QueueOK
<1>4. WorkQueued'
  BY <1>3 DEF WorkQueued, Shapes
<1>5. UserQueued'
  BY <1>3 DEF UserQueued
<1>6. QED
  BY <1>3, <1>4, <1>5

LEMMA UserWaits ==
  ASSUME QueueOK, WorkQueued, UserQueued, NEW e \in Entries,
         user = "none", user' \in Operations, Wait(<<e, "user">>),
         UNCHANGED work
  PROVE  QueueOK' /\ WorkQueued' /\ UserQueued'
<1>1. <<e, "user">> \in AllTasks /\ <<e, "user">> \notin ToSet(queue)
  BY DEF AllTasks, UserQueued
<1>2. queue' = Append(queue, <<e, "user">>)
  BY DEF Wait
<1>3. ASSUME NEW i \in 1 .. Len(queue) PROVE queue[i][2] # "user"
  <2>1. queue[i] \in AllTasks /\ queue[i] \in ToSet(queue)
    BY Members, ElementOfSeq DEF QueueOK
  <2>2. PICK d \in Entries, k \in {"work", "user"} : queue[i] = <<d, k>>
    BY <2>1 DEF AllTasks
  <2>3. QED
    BY <2>1, <2>2 DEF UserQueued
<1>4. /\ QueueOK'
      /\ \A x : x \in ToSet(queue') <=> x = <<e, "user">> \/ x \in ToSet(queue)
  BY <1>1, <1>2, <1>3, Joined DEF QueueOK
<1>5. WorkQueued'
  BY <1>4 DEF WorkQueued
<1>6. UserQueued'
  BY <1>4 DEF UserQueued, Operations
<1>7. QED
  BY <1>4, <1>5, <1>6

LEMMA WorkLeaves ==
  ASSUME QueueOK, WorkQueued, UserQueued, Shapes, NEW e \in Entries,
         Holds(<<e, "work">>), work' = [work EXCEPT ![e] = "none"], Release,
         UNCHANGED user
  PROVE  QueueOK' /\ WorkQueued' /\ UserQueued'
<1>1. queue # <<>> /\ Head(queue) = <<e, "work">> /\ queue' = Tail(queue)
  BY DEF Holds, Release
<1>2. /\ QueueOK'
      /\ \A x : x \in ToSet(queue') <=> x # <<e, "work">> /\ x \in ToSet(queue)
  BY <1>1, Left DEF QueueOK
<1>3. WorkQueued'
  BY <1>2 DEF WorkQueued, Shapes
<1>4. UserQueued'
  BY <1>2 DEF UserQueued
<1>5. QED
  BY <1>2, <1>3, <1>4

LEMMA UserLeaves ==
  ASSUME QueueOK, WorkQueued, UserQueued, NEW e \in Entries,
         Holds(<<e, "user">>), user' = "none", Release, UNCHANGED work
  PROVE  QueueOK' /\ WorkQueued' /\ UserQueued'
<1>1. queue # <<>> /\ Head(queue) = <<e, "user">> /\ queue' = Tail(queue)
  BY DEF Holds, Release
<1>2. /\ QueueOK'
      /\ \A x : x \in ToSet(queue') <=> x # <<e, "user">> /\ x \in ToSet(queue)
      /\ \A d \in Entries : <<d, "user">> \notin ToSet(queue')
  BY <1>1, Left DEF QueueOK
<1>3. WorkQueued'
  BY <1>2 DEF WorkQueued
<1>4. UserQueued'
  BY <1>2 DEF UserQueued
<1>5. QED
  BY <1>2, <1>3, <1>4

(* Whoever joins does not take the lock from one who talks to the device.  *)
LEMMA HolderStays ==
  ASSUME QueueOK, RequestingOK, requesting, NEW task, Wait(task)
  PROVE  \A x : Holds(x)' <=> Holds(x)
<1>1. queue # <<>>
  BY DEF RequestingOK, Requester, Holds
<1>2. queue' = Append(queue, task) /\ queue \in Seq(AllTasks)
  BY DEF Wait, QueueOK
<1>3. Head(queue') = Head(queue)
  BY <1>1, <1>2, HeadTailAppend
<1>4. queue' # <<>>
  BY <1>2, AppendIsConcat
<1>5. QED
  BY <1>1, <1>3, <1>4 DEF Holds

-----------------------------------------------------------------------------
(* The steps, one lemma for each kind.  An entry that a step leaves alone  *)
(* stays as settled as it was.                                             *)
LEMMA Untouched ==
  ASSUME NEW d \in Entries, SettledFor(d), settled'[d] => settled[d],
         UNCHANGED <<keep[d], session[d], configured, keepOpen[d], life[d],
                     work[d], sock[d]>>,
         UserTalks(d) => UserTalks(d)'
  PROVE  SettledFor(d)'
BY DEF SettledFor, Policy

LEMMA InvParts ==
  EndpointInv <=> /\ Shapes /\ WorkQueued /\ UserQueued /\ QueueOK
                  /\ RequestingOK /\ SettledOK
BY TypeSplit DEF EndpointInv

LEMMA QueueUnchanged ==
  ASSUME QueueOK, WorkQueued, UserQueued, UNCHANGED <<queue, work, user>>
  PROVE  QueueOK' /\ WorkQueued' /\ UserQueued'
BY DEF QueueOK, WorkQueued, UserQueued

LEMMA InitEstablishes == Init => EndpointInv
<1> SUFFICES ASSUME Init PROVE EndpointInv
  OBVIOUS
<1>1. Shapes
  BY DEF Init, Shapes, Operations
<1>2. QueueOK
  BY EmptySeq DEF Init, QueueOK, NoDuplicates, OneUser
<1>3. \A x : x \notin ToSet(queue)
  BY DEF Init, ToSet
<1>4. WorkQueued /\ UserQueued
  BY <1>3 DEF Init, WorkQueued, UserQueued
<1>5. RequestingOK /\ SettledOK
  BY DEF Init, RequestingOK, SettledOK, SettledFor
<1>6. QED
  BY <1>1, <1>2, <1>4, <1>5, InvParts

LEMMA EntriesChange ==
  ASSUME EndpointInv, NEW e \in Entries, AddEntry(e) \/ RemoveEntry(e)
  PROVE  EndpointInv'
<1>1. /\ Shapes /\ WorkQueued /\ UserQueued /\ QueueOK
      /\ RequestingOK /\ SettledOK
  BY InvParts
<1>2. /\ UNCHANGED <<life, keep, session, sock, work, keepOpen, user, queue,
                     requesting>>
      /\ configured' \subseteq Entries
      /\ settled' = [d \in Entries |-> FALSE]
  BY <1>1 DEF AddEntry, RemoveEntry, Unsettled, Shapes
<1>3. Shapes'
  BY <1>1, <1>2 DEF Shapes
<1>4. QueueOK' /\ WorkQueued' /\ UserQueued'
  BY <1>1, <1>2, QueueUnchanged
<1>5. RequestingOK'
  BY <1>1, <1>2 DEF RequestingOK, Requester, Holds
<1>6. SettledOK'
  BY <1>2 DEF SettledOK, SettledFor
<1>7. QED
  BY <1>3, <1>4, <1>5, <1>6, InvParts, PTL

LEMMA SetupSteps ==
  ASSUME EndpointInv, NEW e \in Entries,
         SetupConnect(e) \/ SetupGivesUp(e) \/ Unload(e)
  PROVE  EndpointInv'
<1>1. /\ Shapes /\ WorkQueued /\ UserQueued /\ QueueOK
      /\ RequestingOK /\ SettledOK
  BY InvParts
<1>2. UNCHANGED <<configured, keep, session, work, keepOpen, user, queue,
                  requesting>>
  BY DEF SetupConnect, SetupGivesUp, Unload
<1>3. /\ life' \in [Entries -> {"unloaded", "starting", "loaded"}]
      /\ sock' \in [Entries -> BOOLEAN] /\ settled' \in [Entries -> BOOLEAN]
      /\ \A d \in Entries \ {e} :
           UNCHANGED <<life[d], sock[d]>> /\ (settled'[d] => settled[d])
  BY <1>1 DEF SetupConnect, SetupGivesUp, Unload, Shapes, Unsettled
<1>4. Shapes'
  BY <1>1, <1>2, <1>3 DEF Shapes
<1>5. QueueOK' /\ WorkQueued' /\ UserQueued'
  BY <1>1, <1>2, QueueUnchanged
<1>6. work[e] # "probe"
  BY <1>1 DEF SetupConnect, SetupGivesUp, Unload, RequestingOK
<1>7. RequestingOK'
  BY <1>1, <1>2, <1>3, <1>6 DEF RequestingOK, Requester, Holds
<1>8. SettledFor(e)'
  <2>1. CASE SetupConnect(e)
    BY <2>1 DEF SetupConnect, Unsettled, SettledFor
  <2>2. CASE SetupGivesUp(e)
    BY <1>1, <2>2 DEF SetupGivesUp, SettledOK, SettledFor
  <2>3. CASE Unload(e)
    BY <1>1, <1>2, <2>3
       DEF Unload, SettledOK, SettledFor, Policy, Shapes
  <2>4. QED
    BY <2>1, <2>2, <2>3
<1>9. ASSUME NEW d \in Entries \ {e} PROVE SettledFor(d)'
  BY <1>1, <1>2, <1>3, Untouched DEF SettledOK, UserTalks, Holds
<1>10. SettledOK'
  BY <1>8, <1>9 DEF SettledOK
<1>11. QED
  BY <1>4, <1>5, <1>7, <1>10, InvParts, PTL

(* A setup's probes, and a poll, begin to wait.                            *)
LEMMA WorkBegins ==
  ASSUME EndpointInv, NEW e \in Entries, SetupProbe(e) \/ Poll(e)
  PROVE  EndpointInv'
<1>1. /\ Shapes /\ WorkQueued /\ UserQueued /\ QueueOK
      /\ RequestingOK /\ SettledOK
  BY InvParts
<1>2. /\ work[e] = "none" /\ Wait(<<e, "work">>)
      /\ UNCHANGED <<configured, life, keep, session, sock, user, requesting>>
  BY DEF SetupProbe, Poll, entry
<1>3. \/ /\ SetupProbe(e) /\ work' = [work EXCEPT ![e] = "probe"]
         /\ UNCHANGED <<keepOpen, settled>> /\ life[e] = "starting"
      \/ /\ Poll(e) /\ work' = [work EXCEPT ![e] = "poll"]
         /\ keepOpen' = [keepOpen EXCEPT ![e] = EffectiveKeep(e)]
         /\ settled' = [settled EXCEPT ![e] = TRUE]
  BY DEF SetupProbe, Poll
<1>4. EffectiveKeep(e) \in BOOLEAN /\ (EffectiveKeep(e) <=> Policy(e))
  BY <1>1 DEF EffectiveKeep, Policy, Shapes
<1>5. Shapes'
  <2>1. keepOpen' \in [Entries -> BOOLEAN] /\ settled' \in [Entries -> BOOLEAN]
    BY <1>1, <1>3, <1>4, Zenon DEF Shapes
  <2>2. work' \in [Entries -> {"none", "probe", "poll"}]
    BY <1>1, <1>3 DEF Shapes
  <2>3. QED
    BY <1>1, <1>2, <2>1, <2>2 DEF Shapes
<1>6. QueueOK' /\ WorkQueued' /\ UserQueued'
  BY <1>1, <1>2, <1>3, WorkWaits
<1>7. requesting => \A x : Holds(x)' <=> Holds(x)
  BY <1>1, <1>2, HolderStays
<1>8. RequestingOK'
  BY <1>1, <1>2, <1>3, <1>7 DEF RequestingOK, Requester, Shapes
<1>9. SettledFor(e)'
  <2>1. CASE SetupProbe(e)
    BY <1>1, <1>2, <1>3, <2>1 DEF SetupProbe, SettledOK, SettledFor
  <2>2. CASE Poll(e)
    BY <1>1, <1>2, <1>4, <2>2 DEF Poll, SettledFor, Policy, Shapes, entry
  <2>3. QED
    BY <2>1, <2>2
<1>10. ASSUME NEW d \in Entries \ {e} PROVE SettledFor(d)'
  BY <1>1, <1>2, <1>3, <1>7, Untouched DEF SettledOK, UserTalks, Shapes
<1>11. SettledOK'
  BY <1>9, <1>10 DEF SettledOK
<1>12. QED
  BY <1>5, <1>6, <1>8, <1>11, InvParts, PTL

LEMMA PressPreserves ==
  ASSUME EndpointInv, NEW e \in Entries, Press(e)
  PROVE  EndpointInv'
<1>1. /\ Shapes /\ WorkQueued /\ UserQueued /\ QueueOK
      /\ RequestingOK /\ SettledOK
  BY InvParts
<1>2. /\ user = "none" /\ user' \in Operations /\ Wait(<<e, "user">>)
      /\ UNCHANGED <<configured, life, keep, session, sock, work, keepOpen,
                     requesting, settled>>
  BY DEF Press, entry
<1>3. Shapes'
  BY <1>1, <1>2 DEF Shapes
<1>4. QueueOK' /\ WorkQueued' /\ UserQueued'
  BY <1>1, <1>2, UserWaits
<1>5. requesting => \A x : Holds(x)' <=> Holds(x)
  BY <1>1, <1>2, HolderStays
<1>6. RequestingOK'
  BY <1>1, <1>2, <1>5 DEF RequestingOK, Requester
<1>7. SettledOK'
  BY <1>1, <1>2, <1>5, Untouched DEF SettledOK, UserTalks
<1>8. QED
  BY <1>3, <1>4, <1>6, <1>7, InvParts, PTL

-----------------------------------------------------------------------------
LEMMA HolderWaits ==
  ASSUME EndpointInv, NEW x, Holds(x)
  PROVE  x \in ToSet(queue)
<1>1. queue # <<>> /\ Head(queue) = x /\ queue \in Seq(AllTasks)
  BY DEF Holds, EndpointInv, QueueOK
<1>2. 1 \in 1 .. Len(queue) /\ queue[1] = x
  BY <1>1, EmptySeq
<1>3. QED
  BY <1>1, <1>2, Members

(* The holder of the lock.  It is in the queue, so its task is at work, or *)
(* its operation under way; and no other task is the holder.               *)
LEMMA Holder ==
  ASSUME EndpointInv, NEW e \in Entries
  PROVE  /\ Holds(<<e, "work">>)
              => work[e] # "none" /\ \A d \in Entries : ~Holds(<<d, "user">>)
         /\ Holds(<<e, "user">>)
              => /\ user # "none"
                 /\ \A d \in Entries : Holds(<<d, "user">>) => d = e
                 /\ \A d \in Entries : ~Holds(<<d, "work">>)
<1>1. QueueOK /\ WorkQueued /\ UserQueued
  BY InvParts
<1>2. ASSUME NEW x, Holds(x) PROVE x \in ToSet(queue)
  BY <1>2, HolderWaits
<1>3. ASSUME NEW x, NEW y, Holds(x), Holds(y) PROVE x = y
  BY <1>3 DEF Holds
<1>4. QED
  BY <1>1, <1>2, <1>3 DEF WorkQueued, UserQueued

(* The connect of a task: it may open the socket, and then the task talks. *)
LEMMA ConnectPreserves ==
  ASSUME EndpointInv, NEW e \in Entries, Ensured(e), ~requesting, Requester(e),
         UNCHANGED <<entry, work, keepOpen, user, queue, settled>>
  PROVE  EndpointInv'
<1>1. /\ Shapes /\ WorkQueued /\ UserQueued /\ QueueOK
      /\ RequestingOK /\ SettledOK
  BY InvParts
<1>2. /\ requesting' = TRUE /\ sock' \in [Entries -> BOOLEAN]
      /\ \A d \in Entries \ {e} : sock'[d] = sock[d]
  BY <1>1 DEF Ensured, Shapes
<1>3. UNCHANGED <<configured, life, keep, session, work, keepOpen, user, queue,
                  settled>>
  BY DEF entry
<1>4. Shapes'
  BY <1>1, <1>2, <1>3 DEF Shapes
<1>5. QueueOK' /\ WorkQueued' /\ UserQueued'
  BY <1>1, <1>3, QueueUnchanged
<1>6. RequestingOK'
  BY <1>1, <1>3 DEF RequestingOK, Requester, Holds
<1>7. SettledFor(e)'
  <2>1. CASE Holds(<<e, "work">>)
    <3>1. work[e] \in {"probe", "poll"}
      BY <1>1, <2>1, Holder DEF Shapes
    <3>2. settled[e] => work[e] = "poll"
      BY <1>1, <3>1 DEF RequestingOK, SettledOK, SettledFor
    <3>3. QED
      BY <1>1, <1>3, <3>2 DEF SettledOK, SettledFor, Policy
  <2>2. CASE Holds(<<e, "user">>)
    <3>1. UserTalks(e)'
      BY <1>2, <1>3, <2>2 DEF UserTalks, Holds
    <3>2. QED
      BY <1>1, <1>3, <3>1 DEF SettledOK, SettledFor, Policy
  <2>3. QED
    BY <2>1, <2>2 DEF Requester
<1>8. ASSUME NEW d \in Entries \ {e} PROVE SettledFor(d)'
  BY <1>1, <1>2, <1>3, Untouched DEF SettledOK, UserTalks
<1>9. SettledOK'
  BY <1>7, <1>8 DEF SettledOK
<1>10. QED
  BY <1>4, <1>5, <1>6, <1>9, InvParts, PTL

(* The work of an entry ends.                                              *)
LEMMA WorkEndTypes ==
  ASSUME Shapes, NEW e \in Entries, NEW ok \in BOOLEAN, WorkEnds(e, ok)
  PROVE  /\ work' = [work EXCEPT ![e] = "none"]
         /\ work' \in [Entries -> {"none", "probe", "poll"}]
         /\ keepOpen' \in [Entries -> BOOLEAN] /\ ~keepOpen'[e]
         /\ life' \in [Entries -> {"unloaded", "starting", "loaded"}]
         /\ work[e] = "poll" => life'[e] # "starting"
         /\ \A d \in Entries \ {e} :
              UNCHANGED <<work[d], keepOpen[d], life[d]>>
BY DEF Shapes, WorkEnds

LEMMA WorkFails ==
  ASSUME EndpointInv, NEW e \in Entries, Holds(<<e, "work">>), ~requesting,
         sock' = [sock EXCEPT ![e] = FALSE], WorkEnds(e, FALSE), Release,
         UNCHANGED <<requesting, configured, keep, session, user, settled>>
  PROVE  EndpointInv'
<1>1. /\ Shapes /\ WorkQueued /\ UserQueued /\ QueueOK
      /\ RequestingOK /\ SettledOK
  BY InvParts
<1>2. /\ work' = [work EXCEPT ![e] = "none"]
      /\ work' \in [Entries -> {"none", "probe", "poll"}]
      /\ keepOpen' \in [Entries -> BOOLEAN] /\ ~keepOpen'[e]
      /\ life' \in [Entries -> {"unloaded", "starting", "loaded"}]
      /\ work[e] = "poll" => life'[e] # "starting"
      /\ \A d \in Entries \ {e} : UNCHANGED <<work[d], keepOpen[d], life[d]>>
  BY <1>1, WorkEndTypes
<1>3. /\ sock' \in [Entries -> BOOLEAN] /\ ~sock'[e]
      /\ \A d \in Entries \ {e} : sock'[d] = sock[d]
  BY <1>1 DEF Shapes
<1>4. Shapes'
  BY <1>1, <1>2, <1>3 DEF Shapes
<1>5. QueueOK' /\ WorkQueued' /\ UserQueued'
  BY <1>1, <1>2, WorkLeaves
<1>6. RequestingOK'
  BY <1>1, <1>2 DEF RequestingOK, Shapes
<1>7. SettledFor(e)'
  <2>1. work[e] \in {"probe", "poll"}
    BY <1>1, Holder DEF Shapes
  <2>2. settled[e] => work[e] = "poll"
    BY <1>1, <2>1 DEF RequestingOK, SettledOK, SettledFor
  <2>3. QED
    BY <1>2, <1>3, <2>2 DEF SettledFor
<1>8. ASSUME NEW d \in Entries \ {e} PROVE SettledFor(d)'
  BY <1>1, <1>2, <1>3, Untouched DEF SettledOK, UserTalks
<1>9. SettledOK'
  BY <1>7, <1>8 DEF SettledOK
<1>10. QED
  BY <1>4, <1>5, <1>6, <1>9, InvParts, PTL

LEMMA ReadsPreserve ==
  ASSUME EndpointInv, NEW e \in Entries, WorkReads(e)
  PROVE  EndpointInv'
<1>1. /\ Shapes /\ WorkQueued /\ UserQueued /\ QueueOK
      /\ RequestingOK /\ SettledOK
  BY InvParts
<1>2. /\ Holds(<<e, "work">>) /\ requesting' = FALSE /\ Release
      /\ UNCHANGED <<configured, keep, user>>
      /\ settled' = [d \in Entries |->
                       settled[d] /\ d \notin IF work[e] = "probe" THEN {e}
                                                                   ELSE {}]
  BY DEF WorkReads, Unsettled
<1>3. PICK open \in BOOLEAN, still \in BOOLEAN, ok \in BOOLEAN :
        /\ open => still /\ Kept(e)
        /\ session' = [session EXCEPT ![e] = still]
        /\ sock' = [sock EXCEPT ![e] = open]
        /\ WorkEnds(e, ok)
  BY DEF WorkReads
<1>4. /\ work' = [work EXCEPT ![e] = "none"]
      /\ work' \in [Entries -> {"none", "probe", "poll"}]
      /\ keepOpen' \in [Entries -> BOOLEAN] /\ ~keepOpen'[e]
      /\ life' \in [Entries -> {"unloaded", "starting", "loaded"}]
      /\ work[e] = "poll" => life'[e] # "starting"
      /\ \A d \in Entries \ {e} : UNCHANGED <<work[d], keepOpen[d], life[d]>>
  BY <1>1, <1>3, WorkEndTypes
<1>5. /\ sock' \in [Entries -> BOOLEAN] /\ session' \in [Entries -> BOOLEAN]
      /\ sock'[e] = open /\ session'[e] = still
      /\ \A d \in Entries \ {e} : UNCHANGED <<sock[d], session[d]>>
  BY <1>1, <1>3 DEF Shapes
<1>6. /\ settled' \in [Entries -> BOOLEAN]
      /\ \A d \in Entries : settled'[d] => settled[d]
      /\ settled'[e] => work[e] # "probe"
  BY <1>1, <1>2 DEF Shapes
<1>7. Shapes'
  BY <1>1, <1>2, <1>4, <1>5, <1>6 DEF Shapes
<1>8. QueueOK' /\ WorkQueued' /\ UserQueued'
  BY <1>1, <1>2, <1>4, WorkLeaves
<1>9. RequestingOK'
  BY <1>1, <1>2, <1>4 DEF RequestingOK, Shapes
<1>10. SettledFor(e)'
  <2>1. settled'[e] => work[e] = "poll"
    BY <1>1, <1>2, <1>6, Holder DEF Shapes
  <2>2. settled'[e] /\ sock'[e] => Policy(e)'
    BY <1>1, <1>2, <1>3, <1>5, <1>6, <2>1
       DEF Kept, Policy, SettledOK, SettledFor
  <2>3. QED
    BY <1>4, <2>1, <2>2 DEF SettledFor
<1>11. ASSUME NEW d \in Entries \ {e} PROVE SettledFor(d)'
  BY <1>1, <1>2, <1>4, <1>5, <1>6, Untouched, Holder DEF SettledOK, UserTalks
<1>12. SettledOK'
  BY <1>10, <1>11 DEF SettledOK
<1>13. QED
  BY <1>7, <1>8, <1>9, <1>12, InvParts, PTL

(* An operation of a user ends, with what it may have done to its entry.   *)
LEMMA UserEnds ==
  ASSUME EndpointInv, NEW e \in Entries, Holds(<<e, "user">>),
         user' = "none", Release,
         UNCHANGED <<configured, life, work, keepOpen>>,
         {keep, session, sock, settled}' \subseteq [Entries -> BOOLEAN],
         requesting' = FALSE,
         \A d \in Entries \ {e} : /\ UNCHANGED <<keep[d], session[d], sock[d]>>
                                  /\ settled'[d] => settled[d],
         SettledFor(e)'
  PROVE  EndpointInv'
<1>1. /\ Shapes /\ WorkQueued /\ UserQueued /\ QueueOK
      /\ RequestingOK /\ SettledOK
  BY InvParts
<1>2. Shapes'
  BY <1>1 DEF Shapes
<1>3. QueueOK' /\ WorkQueued' /\ UserQueued'
  BY <1>1, UserLeaves
<1>4. RequestingOK'
  BY <1>1 DEF RequestingOK
<1>5. ASSUME NEW d \in Entries \ {e} PROVE SettledFor(d)'
  BY <1>1, Untouched, Holder DEF SettledOK, UserTalks
<1>6. SettledOK'
  BY <1>5 DEF SettledOK
<1>7. QED
  BY <1>2, <1>3, <1>4, <1>6, InvParts, PTL

(* Before its connect a command or a detection has changed nothing; nor    *)
(* have the diagnostics, ever.                                             *)
LEMMA SilentHolder ==
  ASSUME EndpointInv, NEW e \in Entries, Holds(<<e, "user">>),
         user \notin {"command", "redetect"}
  PROVE  ~requesting
BY Holder DEF EndpointInv, RequestingOK, Requester

LEMMA UserStepPreserves ==
  ASSUME EndpointInv, NEW e \in Entries,
         \/ /\ UserConnects(e) /\ Release /\ user' = "none"
            /\ sock' = [sock EXCEPT ![e] = FALSE] /\ UNCHANGED requesting
         \/ UserRequests(e) \/ Switch(e) \/ Diagnose(e)
  PROVE  EndpointInv'
<1>1. /\ Shapes /\ WorkQueued /\ UserQueued /\ QueueOK
      /\ RequestingOK /\ SettledOK
  BY InvParts
<1>2. /\ Holds(<<e, "user">>) /\ user' = "none" /\ Release
      /\ UNCHANGED <<configured, life, work, keepOpen>>
  BY DEF UserConnects, UserRequests, Switch, Diagnose, entry
<1>3. CASE UserConnects(e) /\ sock' = [sock EXCEPT ![e] = FALSE]
           /\ UNCHANGED requesting
  <2>1. /\ UNCHANGED <<keep, session, settled>> /\ ~requesting
        /\ sock' \in [Entries -> BOOLEAN] /\ ~sock'[e]
        /\ \A d \in Entries \ {e} : sock'[d] = sock[d]
    BY <1>1, <1>3 DEF UserConnects, entry, Shapes
  <2>2. SettledFor(e)'
    BY <1>1, <1>2, <2>1 DEF SettledOK, SettledFor, Policy
  <2>3. {keep, session, sock, settled}' \subseteq [Entries -> BOOLEAN]
    BY <1>1, <2>1 DEF Shapes
  <2>4. requesting' = FALSE
    BY <1>1, <1>3, <2>1 DEF Shapes
  <2>5. QED
    BY <1>2, <2>1, <2>2, <2>3, <2>4, UserEnds
<1>4. CASE UserRequests(e)
  <2>1. PICK open \in BOOLEAN, still \in BOOLEAN :
          /\ session' = [session EXCEPT ![e] = still]
          /\ sock' = [sock EXCEPT ![e] = open]
    BY <1>4 DEF UserRequests
  <2>2. /\ keep' = keep /\ requesting' = FALSE
        /\ settled' = [d \in Entries |-> settled[d] /\ d \notin {e}]
    BY <1>4 DEF UserRequests, Unsettled
  <2>3. {keep, session, sock, settled}' \subseteq [Entries -> BOOLEAN]
    BY <1>1, <2>1, <2>2 DEF Shapes
  <2>4. \A d \in Entries \ {e} : /\ UNCHANGED <<keep[d], session[d], sock[d]>>
                                 /\ settled'[d] => settled[d]
    BY <1>1, <2>1, <2>2 DEF Shapes
  <2>5. SettledFor(e)'
    BY <2>2 DEF SettledFor
  <2>6. QED
    BY <1>2, <2>2, <2>3, <2>4, <2>5, UserEnds
<1>5. CASE Switch(e)
  <2>1. /\ UNCHANGED <<session, requesting>> /\ ~requesting
    BY <1>2, <1>5, SilentHolder DEF Switch
  <2>2. PICK enabled \in BOOLEAN :
          IF keep[e] = enabled
          THEN UNCHANGED <<keep, sock, settled>>
          ELSE /\ keep' = [keep EXCEPT ![e] = enabled]
               /\ sock' = [sock EXCEPT ![e] = sock[e] /\ enabled]
               /\ settled' = [d \in Entries |-> settled[d] /\ d \notin {e}]
    BY <1>5 DEF Switch, Unsettled
  <2>3. {keep, session, sock, settled}' \subseteq [Entries -> BOOLEAN]
    BY <1>1, <2>1, <2>2 DEF Shapes
  <2>4. \A d \in Entries \ {e} : /\ UNCHANGED <<keep[d], session[d], sock[d]>>
                                 /\ settled'[d] => settled[d]
    BY <1>1, <2>1, <2>2 DEF Shapes
  <2>5. SettledFor(e)'
    BY <1>1, <1>2, <2>1, <2>2 DEF SettledOK, SettledFor, Policy, UserTalks
  <2>6. QED
    BY <1>1, <1>2, <2>1, <2>3, <2>4, <2>5, UserEnds DEF Shapes
<1>6. CASE Diagnose(e)
  <2>1. UNCHANGED <<keep, session, sock, settled, requesting>> /\ ~requesting
    BY <1>2, <1>6, SilentHolder DEF Diagnose, entry
  <2>2. {keep, session, sock, settled}' \subseteq [Entries -> BOOLEAN]
    BY <1>1, <2>1 DEF Shapes
  <2>3. SettledFor(e)'
    BY <1>1, <1>2, <2>1 DEF SettledOK, SettledFor, Policy, UserTalks
  <2>4. QED
    BY <1>1, <1>2, <2>1, <2>2, <2>3, UserEnds DEF Shapes
<1>7. QED
  BY <1>3, <1>4, <1>5, <1>6

LEMMA HolderPreserves ==
  ASSUME EndpointInv, NEW e \in Entries, HolderStep(e)
  PROVE  EndpointInv'
<1>1. CASE WorkConnects(e)
  <2>1. CASE Ensured(e) /\ UNCHANGED <<work, keepOpen, life, queue>>
    BY <1>1, <2>1, ConnectPreserves DEF WorkConnects, Requester, entry
  <2>2. CASE /\ sock' = [sock EXCEPT ![e] = FALSE] /\ WorkEnds(e, FALSE)
             /\ Release /\ UNCHANGED requesting
    BY <1>1, <2>2, WorkFails DEF WorkConnects
  <2>3. QED
    BY <1>1, <2>1, <2>2 DEF WorkConnects
<1>2. CASE WorkReads(e)
  BY <1>2, ReadsPreserve
<1>3. CASE UserConnects(e)
  <2>1. CASE Ensured(e) /\ UNCHANGED <<user, queue>>
    BY <1>3, <2>1, ConnectPreserves DEF UserConnects, Requester
  <2>2. CASE /\ sock' = [sock EXCEPT ![e] = FALSE] /\ user' = "none"
             /\ Release /\ UNCHANGED requesting
    BY <1>3, <2>2, UserStepPreserves
  <2>3. QED
    BY <1>3, <2>1, <2>2 DEF UserConnects
<1>4. CASE UserRequests(e) \/ Switch(e) \/ Diagnose(e)
  BY <1>4, UserStepPreserves
<1>5. QED
  BY <1>1, <1>2, <1>3, <1>4 DEF HolderStep

-----------------------------------------------------------------------------
LEMMA EndpointPreserved == EndpointInv /\ [Next]_vars => EndpointInv'
<1>1. ASSUME EndpointInv, Next PROVE EndpointInv'
  BY <1>1, EntriesChange, SetupSteps, WorkBegins, PressPreserves,
     HolderPreserves DEF Next
<1>2. ASSUME EndpointInv, UNCHANGED vars PROVE EndpointInv'
  <2>1. /\ Shapes /\ WorkQueued /\ UserQueued /\ QueueOK
        /\ RequestingOK /\ SettledOK
    BY <1>2, InvParts
  <2>2. UNCHANGED <<configured, life, keep, session, sock, work, keepOpen, user,
                    queue, requesting, settled>>
    BY <1>2 DEF vars, entry
  <2>3. Shapes'
    BY <2>1, <2>2 DEF Shapes
  <2>4. QueueOK' /\ WorkQueued' /\ UserQueued'
    BY <2>1, <2>2, QueueUnchanged
  <2>5. RequestingOK'
    BY <2>1, <2>2 DEF RequestingOK, Requester, Holds
  <2>6. SettledOK'
    BY <2>1, <2>2, Untouched DEF SettledOK, UserTalks, Holds
  <2>7. QED
    BY <2>3, <2>4, <2>5, <2>6, InvParts, PTL
<1>3. QED
  BY <1>1, <1>2

LEMMA EndpointAlways == Spec => []EndpointInv
BY InitEstablishes, EndpointPreserved, PTL DEF Spec

(* Every variable keeps its type; an entry is at work, and a user's        *)
(* operation under way, exactly as long as it waits for the lock or holds  *)
(* it.                                                                     *)
THEOREM EndpointTypeCorrect == Spec => []TypeOK
<1>1. EndpointInv => TypeOK
  BY DEF EndpointInv
<1>2. QED
  BY <1>1, EndpointAlways, PTL

(* Once an entry has polled after its policy last changed, its socket is   *)
(* open at rest only under the policy, however many entries share the      *)
(* endpoint (CHANGELOG.md:400-402).                                        *)
THEOREM SocketsFollowPolicy == Spec => []RetainedByPolicy
<1>1. EndpointInv => RetainedByPolicy
  <2> SUFFICES ASSUME EndpointInv, NEW e \in Entries,
                      settled[e], AtRest(e), sock[e]
               PROVE  Policy(e)
    BY DEF RetainedByPolicy, Policy
  <2>1. WorkQueued /\ UserQueued /\ SettledOK
    BY InvParts
  <2>2. work[e] = "none"
    BY <2>1 DEF AtRest, Tasks, WorkQueued
  <2>3. ~UserTalks(e)
    <3>1. <<e, "user">> \notin ToSet(queue)
      BY DEF AtRest, Tasks
    <3>2. QED
      BY <3>1, HolderWaits DEF UserTalks
  <2>4. QED
    BY <2>1, <2>2, <2>3 DEF SettledOK, SettledFor
<1>2. QED
  BY <1>1, EndpointAlways, PTL
=============================================================================
