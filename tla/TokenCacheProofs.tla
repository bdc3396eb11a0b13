--------------------------- MODULE TokenCacheProofs ---------------------------
(* Proofs about the token caches, for any number of goroutines and any     *)
(* margin, timeouts and lifetimes.                                         *)
EXTENDS TokenCache, SequenceTheorems, TLAPS

-----------------------------------------------------------------------------
(* The inductive invariant, in parts. *)

Types ==
    /\ kind \in Kind
    /\ now \in Nat
    /\ began \in Nat
    /\ queue \in Seq(Waiting)
    /\ fetch \in {"free", "asking", "coming"}
    /\ queue = <<>> => fetch = "free"

(* A token ends when the service said, which was after the request went    *)
(* out and before the answer came in.                                      *)
Issued(t) ==
    /\ t \in Token
    /\ t.began <= t.arrived
    /\ t.began + t.life <= t.end /\ t.end <= t.arrived + t.life

TokensIssued ==
    /\ cache # None => Issued(cache)
    /\ fetch = "coming" => Issued(coming) /\ coming.arrived <= now

(* The one who asks is within its timeout. *)
HolderInTime ==
    fetch # "free" =>
        /\ began <= now
        /\ kind # "azure" => now <= began + FetchTimeout

(* When the request that a caller waits for began, or may begin. *)
Since == IF fetch = "free" THEN now ELSE began

(* For the caller at place i, at most so many requests have begun. *)
Begun(i) == queue[i].ahead + queue[i].overtaken + 1 - i

PlacesInTime ==
    kind # "azure" => \A i \in DOMAIN queue :
        /\ Begun(i) \in Nat
        /\ Since <= queue[i].arrived + Begun(i) * FetchTimeout

(* Azure: when those before a caller, and those that have overtaken it,    *)
(* are done at the latest.                                                 *)
DoneBy(w) == w.arrived + (w.overtaken + 1) * JobTimeout

JobsInTime ==
    kind = "azure" =>
        /\ \A i \in DOMAIN queue :
             /\ queue[i].arrived <= now
             /\ now <= DoneBy(queue[i])
             /\ queue[i].due <= queue[i].arrived + JobTimeout
        /\ \A i, j \in DOMAIN queue : i <= j => queue[i].due <= DoneBy(queue[j])

Inv == Types /\ TokensIssued /\ HolderInTime /\ PlacesInTime /\ JobsInTime

-----------------------------------------------------------------------------
(* The callers. *)

(* What is in line after the first one has gone. *)
LEMMA TailPlaces ==
    ASSUME NEW S, NEW q \in Seq(S), q # <<>>
    PROVE  /\ DOMAIN Tail(q) = 1..(Len(q) - 1)
           /\ \A i \in 1..(Len(q) - 1) :
                 Tail(q)[i] = q[i + 1] /\ i + 1 \in DOMAIN q
  BY HeadTailProperties

(* What is in line after one more has come. *)
LEMMA AppendPlaces ==
    ASSUME NEW S, NEW q \in Seq(S), NEW e \in S
    PROVE  /\ DOMAIN Append(q, e) = 1..(Len(q) + 1)
           /\ Append(q, e)[Len(q) + 1] = e
           /\ \A i \in 1..Len(q) : Append(q, e)[i] = q[i]
           /\ DOMAIN q = 1..Len(q)
           /\ Len(q) \in Nat
  BY AppendProperties

(* What is in line after one has come to the front. *)
LEMMA FrontPlaces ==
    ASSUME NEW S, NEW q \in Seq(S), NEW e \in S
    PROVE  /\ <<e>> \o q \in Seq(S)
           /\ <<e>> \o q # <<>>
           /\ DOMAIN (<<e>> \o q) = 1..(Len(q) + 1)
           /\ (<<e>> \o q)[1] = e
           /\ \A i \in 2..(Len(q) + 1) :
                 (<<e>> \o q)[i] = q[i - 1] /\ i - 1 \in 1..Len(q)
           /\ Len(q) \in Nat
  BY ConcatProperties

(* The time that is left to the job of a caller. *)
LEMMA RestsBounded == \A rest \in Rests : rest \in 0..JobTimeout
  BY TokenCacheAssumption DEF Rests

LEMMA CallerWaiting ==
    ASSUME Types, NEW before \in Nat, NEW rest \in Rests
    PROVE  Caller(before, rest) \in Waiting
  BY RestsBounded, TokenCacheAssumption DEF Types, Waiting, Caller

(* A caller that overtakes is the first, and is one more for all others.   *)
LEMMA OvertakePlaces ==
    ASSUME Types, NEW rest \in Rests, Overtake(rest)
    PROVE  /\ queue' \in Seq(Waiting) /\ queue' # <<>>
           /\ DOMAIN queue' = 1..(Len(queue) + 1)
           /\ DOMAIN queue = 1..Len(queue)
           /\ Len(queue) \in Nat
           /\ queue'[1] = Caller(0, rest)
           /\ \A i \in 2..(Len(queue) + 1) :
                 /\ i - 1 \in 1..Len(queue)
                 /\ queue'[i].arrived = queue[i - 1].arrived
                 /\ queue'[i].ahead = queue[i - 1].ahead
                 /\ queue'[i].overtaken = queue[i - 1].overtaken + 1
                 /\ queue'[i].due = queue[i - 1].due
  <1> DEFINE q == [i \in DOMAIN queue |-> [queue[i] EXCEPT !.overtaken = @ + 1]]
             e == Caller(0, rest)
  <1>1. queue \in Seq(Waiting) /\ Len(queue) \in Nat /\ DOMAIN queue = 1..Len(queue)
    BY DEF Types
  <1>2. ASSUME NEW i \in 1..Len(queue)
        PROVE  /\ [queue[i] EXCEPT !.overtaken = @ + 1] \in Waiting
               /\ q[i].arrived = queue[i].arrived
               /\ q[i].ahead = queue[i].ahead
               /\ q[i].overtaken = queue[i].overtaken + 1
               /\ q[i].due = queue[i].due
    <2>1. queue[i] \in Waiting /\ i \in DOMAIN queue
      BY <1>1
    <2>2. q[i] = [queue[i] EXCEPT !.overtaken = @ + 1]
      BY <2>1
    <2> HIDE DEF q
    <2> QED
      BY <2>1, <2>2 DEF Waiting
  <1>3. q \in Seq(Waiting) /\ Len(q) = Len(queue)
    <2>1. q \in [1..Len(queue) -> Waiting]
      BY <1>1, <1>2
    <2> QED
      BY <1>1, <2>1
  <1>4. e \in Waiting
    BY CallerWaiting
  <1>5. queue' = <<e>> \o q
    BY DEF Overtake
  <1> HIDE DEF q, e
  <1>6. /\ queue' \in Seq(Waiting) /\ queue' # <<>>
        /\ DOMAIN queue' = 1..(Len(q) + 1)
        /\ queue'[1] = e
        /\ \A i \in 2..(Len(q) + 1) : queue'[i] = q[i - 1] /\ i - 1 \in 1..Len(q)
    BY <1>3, <1>4, <1>5, FrontPlaces
  <1> QED
    BY <1>1, <1>2, <1>3, <1>6 DEF e

-----------------------------------------------------------------------------
(* Types, tokens and the holder. *)

(* None is no token. *)
LEMMA NoneIsNoToken == None \notin Token
  BY DEF None, Token

(* Every step keeps the types; an empty queue means that nobody asks. *)
LEMMA TypesInductive == Types /\ [Next]_vars => Types'
  <1> SUFFICES ASSUME Types, [Next]_vars PROVE Types'
    OBVIOUS
  <1> USE TokenCacheAssumption DEF Types
  <1>1. ASSUME NEW rest \in Rests, Call(rest) PROVE Types'
    <2> DEFINE q == Append(queue, Caller(Len(queue), rest))
    <2>1. q \in Seq(Waiting) /\ q # <<>>
      BY CallerWaiting, AppendProperties
    <2> QED
      BY <1>1, <2>1 DEF Call
  <1>10. ASSUME NEW rest \in Rests, Overtake(rest) PROVE Types'
    <2>1. queue' \in Seq(Waiting) /\ queue' # <<>>
      BY <1>10, OvertakePlaces DEF Overtake
    <2> QED
      BY <1>10, <2>1 DEF Overtake
  <1>2. ASSUME queue # <<>>, Unlock PROVE Types'
    BY <1>2, HeadTailProperties DEF Unlock
  <1>3. CASE TakeCached
    BY <1>2, <1>3 DEF TakeCached
  <1>4. CASE AskTokenService
    BY <1>4 DEF AskTokenService
  <1>5. ASSUME NEW life \in Lifetimes, Issue(life) PROVE Types'
    BY <1>5 DEF Issue
  <1>6. CASE TokenArrives
    BY <1>2, <1>6 DEF TokenArrives
  <1>7. CASE FetchFails
    BY <1>2, <1>7 DEF FetchFails
  <1>8. CASE Tick
    BY <1>8 DEF Tick
  <1>9. CASE UNCHANGED vars
    BY <1>9 DEF vars
  <1> QED
    BY <1>1, <1>3, <1>4, <1>5, <1>6, <1>7, <1>8, <1>9, <1>10 DEF Next

(* The answer with the time of its arrival. *)
LEMMA ArrivalDated ==
    ASSUME NEW t, Issued(t), NEW n \in Nat, t.arrived <= n
    PROVE  Issued([t EXCEPT !.arrived = n])
  <1> DEFINE u == [t EXCEPT !.arrived = n]
  <1>1. t \in Token
    BY DEF Issued
  <1>2. /\ u \in Token
        /\ u.arrived = n
        /\ u.end = t.end /\ u.life = t.life /\ u.began = t.began
    BY <1>1 DEF Token
  <1> HIDE DEF u
  <1>3. Issued(u)
    BY <1>1, <1>2 DEF Issued, Token
  <1> QED
    BY <1>3 DEF u

(* Every step keeps what the tokens say of their dates. *)
LEMMA TokensInductive ==
    Types /\ TokensIssued /\ HolderInTime /\ [Next]_vars => TokensIssued'
  <1> SUFFICES ASSUME Types, TokensIssued, HolderInTime, [Next]_vars
               PROVE  TokensIssued'
    OBVIOUS
  <1> USE TokenCacheAssumption DEF Types, TokensIssued, HolderInTime
  <1>1. ASSUME NEW rest \in Rests, Call(rest) \/ Overtake(rest)
        PROVE  TokensIssued'
    BY <1>1 DEF Call, Overtake, Issued
  <1>2. CASE TakeCached
    BY <1>2 DEF TakeCached, Unlock, Issued
  <1>3. CASE AskTokenService
    BY <1>3 DEF AskTokenService, Issued
  <1>4. ASSUME NEW life \in Lifetimes, Issue(life) PROVE TokensIssued'
    <2>1. Issued(coming') /\ coming'.arrived <= now'
      BY <1>4 DEF Issue, Issued, Token
    <2> QED
      BY <1>4, <2>1 DEF Issue, Issued
  <1>5. CASE TokenArrives
    <2>1. Issued(coming) /\ coming.arrived <= now
      BY <1>5 DEF TokenArrives
    <2>2. Issued([coming EXCEPT !.arrived = now])
      BY <2>1, ArrivalDated
    <2> QED
      BY <1>5, <2>2 DEF TokenArrives, Unlock, Issued
  <1>6. CASE FetchFails
    BY <1>6 DEF FetchFails, Unlock, Issued
  <1>7. CASE Tick
    BY <1>7 DEF Tick, Issued, Token
  <1>8. CASE UNCHANGED vars
    BY <1>8 DEF vars, Issued
  <1> QED
    BY <1>1, <1>2, <1>3, <1>4, <1>5, <1>6, <1>7, <1>8 DEF Next

(* The one who has the mutex stays within its timeout. *)
LEMMA HolderInductive == Types /\ HolderInTime /\ [Next]_vars => HolderInTime'
  <1> SUFFICES ASSUME Types, HolderInTime, [Next]_vars PROVE HolderInTime'
    OBVIOUS
  <1> USE TokenCacheAssumption DEF Types, HolderInTime
  <1>1. ASSUME NEW rest \in Rests, Call(rest) \/ Overtake(rest)
        PROVE  HolderInTime'
    BY <1>1 DEF Call, Overtake
  <1>2. CASE TakeCached
    BY <1>2 DEF TakeCached, Unlock
  <1>3. CASE AskTokenService
    BY <1>3 DEF AskTokenService
  <1>4. ASSUME NEW life \in Lifetimes, Issue(life) PROVE HolderInTime'
    BY <1>4 DEF Issue
  <1>5. CASE TokenArrives
    BY <1>5 DEF TokenArrives, Unlock
  <1>6. CASE FetchFails
    BY <1>6 DEF FetchFails, Unlock
  <1>7. CASE Tick
    BY <1>7 DEF Tick, FetchDue
  <1>8. CASE UNCHANGED vars
    BY <1>8 DEF vars
  <1> QED
    BY <1>1, <1>2, <1>3, <1>4, <1>5, <1>6, <1>7, <1>8 DEF Next

-----------------------------------------------------------------------------
(* The queue. *)

(* One more request is FetchTimeout more. *)
LEMMA OneMoreRequest ==
    ASSUME NEW k \in Nat, NEW F \in Nat
    PROVE  (k + 1) * F = k * F + F /\ k * F \in Nat
  OBVIOUS

(* More requests take no less. *)
LEMMA MoreRequests ==
    ASSUME NEW m \in Nat, NEW n \in Nat, m <= n, NEW F \in Nat
    PROVE  m * F <= n * F
  OBVIOUS

(* So does a bound that counts the requests. *)
LEMMA OneMoreInTime ==
    ASSUME NEW k \in Nat, NEW F \in Nat, NEW a \in Nat, NEW t \in Nat, NEW u \in Nat,
           t <= a + k * F, u <= t + F
    PROVE  u <= a + (k + 1) * F
  <1> DEFINE p == k * F
  <1>1. p \in Nat /\ (k + 1) * F = p + F
    BY OneMoreRequest
  <1>2. t <= a + p
    OBVIOUS
  <1> HIDE DEF p
  <1> QED
    BY <1>1, <1>2

(* What the queue is made of. *)
LEMMA QueueTyped ==
    ASSUME Types
    PROVE  /\ queue \in Seq(Waiting) /\ Len(queue) \in Nat
           /\ DOMAIN queue = 1..Len(queue)
           /\ \A i \in DOMAIN queue :
                /\ i \in Nat /\ i >= 1
                /\ queue[i].arrived \in Nat /\ queue[i].ahead \in Nat
                /\ queue[i].overtaken \in Nat /\ queue[i].due \in Nat
  <1>1. queue \in Seq(Waiting) /\ Len(queue) \in Nat /\ DOMAIN queue = 1..Len(queue)
    BY DEF Types
  <1>2. ASSUME NEW i \in DOMAIN queue
        PROVE  queue[i] \in Waiting /\ i \in Nat /\ i >= 1
    BY <1>1
  <1> QED
    BY <1>1, <1>2 DEF Waiting

(* Every request that ends lets each caller move up by one place. *)
LEMMA PlacesInductive ==
    Types /\ HolderInTime /\ PlacesInTime /\ [Next]_vars => PlacesInTime'
  <1> SUFFICES ASSUME Types, HolderInTime, PlacesInTime, [Next]_vars, kind # "azure"
               PROVE  PlacesInTime'
    BY DEF Next, Call, Overtake, TakeCached, AskTokenService, Issue, TokenArrives,
           FetchFails, Tick, Unlock, vars, PlacesInTime
  <1> USE TokenCacheAssumption
  <1>0. Since \in Nat /\ Since <= now /\ now \in Nat
    BY DEF Types, HolderInTime, Since
  <1>1. ASSUME NEW rest \in Rests, Call(rest) PROVE PlacesInTime'
    <2> DEFINE e == Caller(Len(queue), rest)
    <2>1. /\ DOMAIN queue' = 1..(Len(queue) + 1)
          /\ queue'[Len(queue) + 1] = e
          /\ \A i \in 1..Len(queue) : queue'[i] = queue[i]
          /\ DOMAIN queue = 1..Len(queue)
          /\ Len(queue) \in Nat
      <3>1. e \in Waiting /\ queue' = Append(queue, e)
        BY <1>1, CallerWaiting, QueueTyped DEF Call
      <3> HIDE DEF e
      <3> QED
        BY <3>1, QueueTyped, AppendPlaces
    <2>2. Since' = Since
      BY <1>1 DEF Call, Since
    <2>3. ASSUME NEW i \in DOMAIN queue'
          PROVE  /\ Begun(i)' \in Nat
                 /\ Since' <= queue'[i].arrived + Begun(i)' * FetchTimeout
      <3>1. CASE i = Len(queue) + 1
        <4>1. Begun(i)' = 0 /\ queue'[i].arrived = now
          BY <2>1, <3>1 DEF Begun, Caller
        <4> QED
          BY <1>0, <2>2, <4>1
      <3>2. CASE i \in 1..Len(queue)
        <4>1. Begun(i)' = Begun(i) /\ queue'[i] = queue[i] /\ i \in DOMAIN queue
          BY <2>1, <3>2 DEF Begun
        <4> QED
          BY <2>2, <4>1 DEF PlacesInTime
      <3> QED
        BY <2>1, <3>1, <3>2
    <2> QED
      BY <2>3 DEF PlacesInTime
  <1>2. ASSUME NEW rest \in Rests, Overtake(rest) PROVE PlacesInTime'
    <2>1. Since' = Since
      BY <1>2 DEF Overtake, Since
    <2>2. ASSUME NEW i \in DOMAIN queue'
          PROVE  /\ Begun(i)' \in Nat
                 /\ Since' <= queue'[i].arrived + Begun(i)' * FetchTimeout
      <3>1. CASE i = 1
        <4>1. Begun(i)' = 0 /\ queue'[i].arrived = now
          BY <1>2, <3>1, OvertakePlaces DEF Begun, Caller
        <4> QED
          BY <1>0, <2>1, <4>1
      <3>2. CASE i \in 2..(Len(queue) + 1)
        <4>1. i - 1 \in DOMAIN queue /\ queue'[i].arrived = queue[i - 1].arrived
          BY <1>2, <3>2, OvertakePlaces
        <4>2. Begun(i)' = Begun(i - 1)
          <5>1. /\ queue[i - 1].ahead \in Nat /\ queue[i - 1].overtaken \in Nat
                /\ i \in Nat
            BY <3>2, <4>1, QueueTyped
          <5>2. /\ queue'[i].ahead = queue[i - 1].ahead
                /\ queue'[i].overtaken = queue[i - 1].overtaken + 1
            BY <1>2, <3>2, OvertakePlaces
          <5>3. Begun(i)' = queue'[i].ahead + queue'[i].overtaken + 1 - i
            BY DEF Begun
          <5>4. Begun(i - 1) = queue[i - 1].ahead + queue[i - 1].overtaken + 1 - (i - 1)
            BY DEF Begun
          <5> QED
            BY <5>1, <5>2, <5>3, <5>4
        <4> QED
          BY <2>1, <4>1, <4>2 DEF PlacesInTime
      <3> QED
        BY <1>2, <3>1, <3>2, OvertakePlaces
    <2> QED
      BY <2>2 DEF PlacesInTime
  <1>3. ASSUME queue # <<>>, Unlock PROVE PlacesInTime'
    <2>1. /\ DOMAIN queue' = 1..(Len(queue) - 1)
          /\ \A i \in 1..(Len(queue) - 1) :
                queue'[i] = queue[i + 1] /\ i + 1 \in DOMAIN queue
      BY <1>3, TailPlaces DEF Unlock, Types
    <2>2. Since' = now /\ now <= Since + FetchTimeout
      BY <1>3 DEF Unlock, Since, HolderInTime, Types
    <2>3. ASSUME NEW i \in DOMAIN queue'
          PROVE  /\ Begun(i)' \in Nat
                 /\ Since' <= queue'[i].arrived + Begun(i)' * FetchTimeout
      <3> DEFINE k == Begun(i + 1)
                 a == queue[i + 1].arrived
      <3>1. queue'[i] = queue[i + 1] /\ i + 1 \in DOMAIN queue /\ i \in Nat
        BY <2>1
      <3>2. /\ a \in Nat /\ queue[i + 1].ahead \in Nat
            /\ queue[i + 1].overtaken \in Nat
        BY <3>1, QueueTyped
      <3>3. k \in Nat /\ Since <= a + k * FetchTimeout
        BY <3>1 DEF PlacesInTime
      <3>4. Begun(i)' = k + 1 /\ queue'[i].arrived = a
        BY <3>1, <3>2 DEF Begun
      <3> HIDE DEF k, a
      <3>5. now <= a + (k + 1) * FetchTimeout
        BY <1>0, <2>2, <3>2, <3>3, OneMoreInTime
      <3> QED
        BY <2>2, <3>3, <3>4, <3>5
    <2> QED
      BY <2>3 DEF PlacesInTime
  <1>4. ASSUME UNCHANGED <<kind, queue>>, queue = <<>> \/ Since' = Since
        PROVE  PlacesInTime'
    BY <1>4, QueueTyped DEF PlacesInTime, Begun
  <1>5. CASE TakeCached
    BY <1>3, <1>5 DEF TakeCached
  <1>6. CASE AskTokenService
    BY <1>4, <1>6 DEF AskTokenService, Since
  <1>7. ASSUME NEW life \in Lifetimes, Issue(life) PROVE PlacesInTime'
    BY <1>4, <1>7 DEF Issue, Since
  <1>8. CASE TokenArrives
    BY <1>3, <1>8 DEF TokenArrives
  <1>9. CASE FetchFails
    BY <1>3, <1>9 DEF FetchFails
  <1>10. CASE Tick
    BY <1>4, <1>10 DEF Tick, Since
  <1>11. CASE UNCHANGED vars
    BY <1>4, <1>11 DEF vars, Since
  <1> QED
    BY <1>1, <1>2, <1>5, <1>6, <1>7, <1>8, <1>9, <1>10, <1>11 DEF Next

(* The times of a caller of the collector. *)
LEMMA DoneByTyped ==
    ASSUME Types
    PROVE  \A i \in DOMAIN queue :
              /\ DoneBy(queue[i]) \in Nat
              /\ queue[i].arrived + JobTimeout <= DoneBy(queue[i])
  <1> SUFFICES ASSUME NEW i \in DOMAIN queue
               PROVE  /\ DoneBy(queue[i]) \in Nat
                      /\ queue[i].arrived + JobTimeout <= DoneBy(queue[i])
    OBVIOUS
  <1> DEFINE n == queue[i].overtaken
  <1>1. n \in Nat /\ queue[i].arrived \in Nat /\ JobTimeout \in Nat
    BY QueueTyped, TokenCacheAssumption
  <1>2. DoneBy(queue[i]) = queue[i].arrived + (n + 1) * JobTimeout
    BY DEF DoneBy
  <1> HIDE DEF n
  <1>3. (n + 1) * JobTimeout = n * JobTimeout + JobTimeout /\ n * JobTimeout \in Nat
    BY <1>1, OneMoreRequest
  <1> QED
    BY <1>1, <1>2, <1>3

(* Whoever overtakes brings the time of one job more. *)
LEMMA OvertakenDoneBy ==
    ASSUME Types, NEW rest \in Rests, Overtake(rest), NEW i \in 2..(Len(queue) + 1)
    PROVE  DoneBy(queue'[i]) = DoneBy(queue[i - 1]) + JobTimeout
  <1> DEFINE n == queue[i - 1].overtaken
  <1>1. i - 1 \in DOMAIN queue
    BY OvertakePlaces
  <1>2. n \in Nat /\ queue[i - 1].arrived \in Nat /\ JobTimeout \in Nat
    BY <1>1, QueueTyped, TokenCacheAssumption
  <1>3. /\ DoneBy(queue'[i]) = queue[i - 1].arrived + (n + 1 + 1) * JobTimeout
        /\ DoneBy(queue[i - 1]) = queue[i - 1].arrived + (n + 1) * JobTimeout
    BY OvertakePlaces DEF DoneBy
  <1> HIDE DEF n
  <1>4. /\ (n + 1 + 1) * JobTimeout = (n + 1) * JobTimeout + JobTimeout
        /\ (n + 1) * JobTimeout \in Nat
    BY <1>2, OneMoreRequest
  <1> QED
    BY <1>2, <1>3, <1>4

(* Whoever asks does so within its own job, which is done in time. *)
LEMMA JobsInductive ==
    Types /\ HolderInTime /\ JobsInTime /\ [Next]_vars => JobsInTime'
  <1> SUFFICES ASSUME Types, HolderInTime, JobsInTime, [Next]_vars, kind = "azure"
               PROVE  JobsInTime'
    BY DEF Next, Call, Overtake, TakeCached, AskTokenService, Issue, TokenArrives,
           FetchFails, Tick, Unlock, vars, JobsInTime
  <1> USE TokenCacheAssumption
  <1>0. now \in Nat
    BY DEF Types
  <1>1. ASSUME NEW rest \in Rests, NEW before \in Nat
        PROVE  /\ Caller(before, rest).arrived = now
               /\ Caller(before, rest).due <= now + JobTimeout
               /\ DoneBy(Caller(before, rest)) = now + JobTimeout
    BY <1>0, RestsBounded DEF Caller, DoneBy
  <1>2. ASSUME NEW rest \in Rests, Call(rest) PROVE JobsInTime'
    <2> DEFINE e == Caller(Len(queue), rest)
    <2>1. /\ DOMAIN queue' = 1..(Len(queue) + 1)
          /\ queue'[Len(queue) + 1] = e
          /\ \A i \in 1..Len(queue) : queue'[i] = queue[i]
          /\ DOMAIN queue = 1..Len(queue)
          /\ Len(queue) \in Nat
      <3>1. e \in Waiting /\ queue' = Append(queue, e)
        BY <1>2, CallerWaiting, QueueTyped DEF Call
      <3> HIDE DEF e
      <3> QED
        BY <3>1, QueueTyped, AppendPlaces
    <2>2. /\ e.arrived = now /\ e.due <= now + JobTimeout
          /\ DoneBy(e) = now + JobTimeout /\ now' = now
      BY <1>1, <1>2, <2>1 DEF Call
    <2> HIDE DEF e
    <2>3. ASSUME NEW i \in DOMAIN queue'
          PROVE  /\ queue'[i].arrived <= now'
                 /\ now' <= DoneBy(queue'[i])
                 /\ queue'[i].due <= queue'[i].arrived + JobTimeout
      <3>1. CASE i = Len(queue) + 1
        BY <1>0, <2>1, <2>2, <3>1
      <3>2. CASE i \in 1..Len(queue)
        BY <2>1, <2>2, <3>2 DEF JobsInTime
      <3> QED
        BY <2>1, <3>1, <3>2
    <2>4. ASSUME NEW i \in DOMAIN queue', NEW j \in DOMAIN queue', i <= j
          PROVE  queue'[i].due <= DoneBy(queue'[j])
      <3>1. CASE j = Len(queue) + 1
        <4>1. CASE i = Len(queue) + 1
          BY <2>1, <2>2, <3>1, <4>1
        <4>2. CASE i \in 1..Len(queue)
          <5>1. /\ queue'[i] = queue[i] /\ i \in DOMAIN queue
                /\ queue[i].arrived \in Nat /\ queue[i].due \in Nat
            BY <2>1, <4>2, QueueTyped
          <5>2. queue[i].arrived <= now /\ queue[i].due <= queue[i].arrived + JobTimeout
            BY <5>1 DEF JobsInTime
          <5>3. DoneBy(queue'[j]) = now + JobTimeout
            BY <2>1, <2>2, <3>1
          <5> QED
            BY <1>0, <5>1, <5>2, <5>3
        <4> QED
          BY <2>1, <4>1, <4>2
      <3>2. CASE j \in 1..Len(queue)
        <4>1. i \in 1..Len(queue)
          BY <2>1, <2>4, <3>2
        <4> QED
          BY <2>1, <2>4, <3>2, <4>1 DEF JobsInTime
      <3> QED
        BY <2>1, <3>1, <3>2
    <2> QED
      BY <2>3, <2>4 DEF JobsInTime
  <1>3. ASSUME NEW rest \in Rests, Overtake(rest) PROVE JobsInTime'
    <2>1. now' = now
      BY <1>3 DEF Overtake
    <2>2. /\ queue'[1].arrived = now /\ queue'[1].due <= now + JobTimeout
          /\ DoneBy(queue'[1]) = now + JobTimeout
          /\ queue'[1].due \in Nat
      <3>1. 0 \in Nat /\ queue'[1] = Caller(0, rest)
        BY <1>3, OvertakePlaces
      <3>2. Caller(0, rest) \in Waiting
        BY <3>1, CallerWaiting
      <3> QED
        BY <1>1, <3>1, <3>2 DEF Waiting
    <2>3. /\ DOMAIN queue' = 1..(Len(queue) + 1)
          /\ \A i \in 2..(Len(queue) + 1) :
               /\ i - 1 \in DOMAIN queue
               /\ queue'[i].arrived = queue[i - 1].arrived
               /\ queue'[i].due = queue[i - 1].due
               /\ DoneBy(queue'[i]) = DoneBy(queue[i - 1]) + JobTimeout
               /\ DoneBy(queue[i - 1]) \in Nat
               /\ queue[i - 1].due \in Nat
               /\ now <= DoneBy(queue[i - 1])
      BY <1>3, OvertakePlaces, OvertakenDoneBy, DoneByTyped, QueueTyped DEF JobsInTime
    <2>4. ASSUME NEW i \in DOMAIN queue'
          PROVE  /\ queue'[i].arrived <= now'
                 /\ now' <= DoneBy(queue'[i])
                 /\ queue'[i].due <= queue'[i].arrived + JobTimeout
      <3>1. CASE i = 1
        BY <1>0, <2>1, <2>2, <3>1
      <3>2. CASE i \in 2..(Len(queue) + 1)
        <4>1. /\ queue[i - 1].arrived <= now
              /\ queue[i - 1].due <= queue[i - 1].arrived + JobTimeout
          BY <2>3, <3>2 DEF JobsInTime
        <4> QED
          BY <1>0, <2>1, <2>3, <3>2, <4>1
      <3> QED
        BY <2>3, <3>1, <3>2, QueueTyped
    <2>5. ASSUME NEW i \in DOMAIN queue', NEW j \in DOMAIN queue', i <= j
          PROVE  queue'[i].due <= DoneBy(queue'[j])
      <3>1. CASE j = 1
        <4>1. i = 1
          BY <2>3, <2>5, <3>1
        <4> QED
          BY <2>2, <3>1, <4>1
      <3>2. CASE j \in 2..(Len(queue) + 1) /\ i = 1
        <4>1. /\ now <= DoneBy(queue[j - 1]) /\ DoneBy(queue[j - 1]) \in Nat
              /\ DoneBy(queue'[j]) = DoneBy(queue[j - 1]) + JobTimeout
          BY <2>3, <3>2
        <4> QED
          BY <1>0, <2>2, <3>2, <4>1
      <3>3. CASE j \in 2..(Len(queue) + 1) /\ i \in 2..(Len(queue) + 1)
        <4>1. /\ i - 1 \in DOMAIN queue /\ j - 1 \in DOMAIN queue
              /\ i - 1 <= j - 1
          BY <2>3, <2>5, <3>3
        <4>2. queue[i - 1].due <= DoneBy(queue[j - 1])
          BY <4>1 DEF JobsInTime
        <4> QED
          BY <2>3, <3>3, <4>2
      <3> QED
        BY <2>3, <3>1, <3>2, <3>3, QueueTyped
    <2> QED
      BY <2>4, <2>5 DEF JobsInTime
  <1>4. ASSUME queue # <<>>, Unlock PROVE JobsInTime'
    <2>1. /\ DOMAIN queue' = 1..(Len(queue) - 1)
          /\ \A i \in 1..(Len(queue) - 1) :
                queue'[i] = queue[i + 1] /\ i + 1 \in DOMAIN queue
      BY <1>4, TailPlaces DEF Unlock, Types
    <2>2. now' = now
      BY <1>4 DEF Unlock
    <2>3. ASSUME NEW i \in DOMAIN queue'
          PROVE  /\ queue'[i].arrived <= now'
                 /\ now' <= DoneBy(queue'[i])
                 /\ queue'[i].due <= queue'[i].arrived + JobTimeout
      BY <2>1, <2>2 DEF JobsInTime
    <2>4. ASSUME NEW i \in DOMAIN queue', NEW j \in DOMAIN queue', i <= j
          PROVE  queue'[i].due <= DoneBy(queue'[j])
      <3>1. i + 1 <= j + 1
        BY <2>1, <2>4
      <3> QED
        BY <2>1, <2>4, <3>1 DEF JobsInTime
    <2> QED
      BY <2>3, <2>4 DEF JobsInTime
  <1>5. CASE TakeCached
    BY <1>4, <1>5 DEF TakeCached
  <1>6. CASE AskTokenService
    BY <1>6 DEF AskTokenService, JobsInTime
  <1>7. ASSUME NEW life \in Lifetimes, Issue(life) PROVE JobsInTime'
    BY <1>7 DEF Issue, JobsInTime
  <1>8. CASE TokenArrives
    BY <1>4, <1>8 DEF TokenArrives
  <1>9. CASE FetchFails
    BY <1>4, <1>9 DEF FetchFails
  <1>10. CASE Tick
    <2>1. queue' = queue /\ now' = now + 1
      BY <1>10 DEF Tick
    <2>2. ASSUME NEW i \in DOMAIN queue
          PROVE  queue[i].arrived <= now + 1 /\ now + 1 <= DoneBy(queue[i])
      <3>1. queue # <<>> /\ 1 \in DOMAIN queue /\ 1 <= i /\ Head(queue) = queue[1]
        BY QueueTyped
      <3>2. now < queue[1].due
        BY <1>10, <3>1 DEF Tick, FetchDue
      <3>3. queue[1].due <= DoneBy(queue[i]) /\ queue[i].arrived <= now
        BY <3>1 DEF JobsInTime
      <3>4. /\ queue[1].due \in Nat /\ queue[i].arrived \in Nat
            /\ DoneBy(queue[i]) \in Nat
        BY <3>1, QueueTyped, DoneByTyped
      <3> QED
        BY <1>0, <3>2, <3>3, <3>4
    <2> QED
      BY <2>1, <2>2 DEF JobsInTime
  <1>11. CASE UNCHANGED vars
    BY <1>11 DEF vars, JobsInTime
  <1> QED
    BY <1>2, <1>3, <1>5, <1>6, <1>7, <1>8, <1>9, <1>10, <1>11 DEF Next

-----------------------------------------------------------------------------
(* The theorems. *)

(* The invariant is inductive. *)
THEOREM InvAlways == Spec => []Inv
  <1>1. Init => Inv
    BY TokenCacheAssumption
    DEF Init, Inv, Types, TokensIssued, HolderInTime, PlacesInTime, JobsInTime, Kind
  <1>2. Inv /\ [Next]_vars => Inv'
    BY TypesInductive, TokensInductive, HolderInductive, PlacesInductive,
       JobsInductive DEF Inv
  <1> QED
    BY <1>1, <1>2, PTL DEF Spec

(* A fresh token is good for Margin more, but for the time of its answer.  *)
LEMMA FreshTokenGood ==
    ASSUME Types, TokensIssued, Fresh
    PROVE  now + Margin <= cache.end + (cache.arrived - cache.began)
  BY TokenCacheAssumption DEF Types, TokensIssued, Fresh, Until, Issued, Token

(* A token that is not fresh is within Margin of its end. *)
LEMMA StaleTokenEnding ==
    ASSUME Types, TokensIssued, ~Fresh, cache # None
    PROVE  now + Margin >= cache.end
  BY TokenCacheAssumption DEF Types, TokensIssued, Fresh, Until, Issued, Token

(* A cached token handed out is good for Margin, less the time of its      *)
(* answer (resolveToken, SignAzureIdentity).                               *)
THEOREM CachedTokenGoodAlways == Spec => []CachedTokenGood
  <1>1. Init => CachedTokenGood
    BY DEF Init, CachedTokenGood
  <1>2. Inv /\ CachedTokenGood /\ [Next]_vars => CachedTokenGood'
    <2> SUFFICES ASSUME Inv, CachedTokenGood, [Next]_vars PROVE CachedTokenGood'
      OBVIOUS
    <2>1. CASE TakeCached
      <3>1. served' = cache /\ now' = now
        BY <2>1 DEF TakeCached, Unlock
      <3>2. now + Margin <= cache.end + (cache.arrived - cache.began)
        BY <2>1, FreshTokenGood DEF TakeCached, Inv
      <3> QED
        BY <3>1, <3>2 DEF CachedTokenGood
    <2>2. CASE UNCHANGED vars
      BY <2>2 DEF vars, CachedTokenGood
    <2>3. CASE served' = None
      BY <2>3 DEF CachedTokenGood
    <2> QED
      BY <2>1, <2>2, <2>3 DEF Next, Call, Overtake, AskTokenService, Issue,
         TokenArrives, FetchFails, Tick
  <1> QED
    BY <1>1, <1>2, InvAlways, PTL DEF Spec

(* No request for a token begins before the last one nears its end: the    *)
(* goroutines that waited for a request find its answer in the cache.      *)
THEOREM FetchesSpreadAlways == Spec => []FetchesSpread
  <1>1. Init => FetchesSpread
    BY DEF Init, FetchesSpread
  <1>2. Inv /\ FetchesSpread /\ [Next]_vars => FetchesSpread'
    <2> SUFFICES ASSUME Inv, FetchesSpread, [Next]_vars PROVE FetchesSpread'
      OBVIOUS
    <2>1. CASE AskTokenService
      <3>1. began' = now /\ cache' = cache
        BY <2>1 DEF AskTokenService, Inv, HolderInTime
      <3>2. cache # None => now + Margin >= cache.end
        BY <2>1, StaleTokenEnding DEF AskTokenService, Inv
      <3> QED
        BY <3>1, <3>2 DEF FetchesSpread
    <2>2. ASSUME NEW rest \in Rests, Call(rest) \/ Overtake(rest)
          PROVE  FetchesSpread'
      BY <2>2 DEF Call, Overtake, FetchesSpread
    <2>3. CASE Unlock
      BY <2>3 DEF Unlock, FetchesSpread
    <2>4. CASE Tick
      BY <2>4 DEF Tick, FetchesSpread
    <2>5. ASSUME NEW life \in Lifetimes, Issue(life) PROVE FetchesSpread'
      BY <2>5 DEF Issue, FetchesSpread
    <2>6. CASE UNCHANGED vars
      BY <2>6 DEF vars, FetchesSpread
    <2> QED
      BY <2>1, <2>2, <2>3, <2>4, <2>5, <2>6
      DEF Next, TakeCached, TokenArrives, FetchFails
  <1> QED
    BY <1>1, <1>2, InvAlways, PTL DEF Spec

(* However goroutines overtake each other at the mutex, nobody waits for   *)
(* longer than the requests of those before it, of those that overtook it  *)
(* and its own take; in the collector, than one job and one more for each  *)
(* that overtook it.                                                       *)
THEOREM WaitBoundedAlways == Spec => []WaitBounded
  <1>1. Inv => WaitBounded
    <2> SUFFICES ASSUME Inv, NEW i \in DOMAIN queue
                 PROVE  now - queue[i].arrived <=
                          IF kind = "azure" THEN (queue[i].overtaken + 1) * JobTimeout
                          ELSE (queue[i].ahead + queue[i].overtaken + 1) * FetchTimeout
      BY DEF WaitBounded
    <2> DEFINE a == queue[i].arrived
               n == queue[i].ahead + queue[i].overtaken + 1
    <2>1. /\ a \in Nat /\ now \in Nat /\ n \in Nat /\ i \in Nat /\ i >= 1
          /\ queue[i].overtaken \in Nat /\ queue[i].ahead \in Nat
          /\ queue # <<>> /\ JobTimeout \in Nat /\ FetchTimeout \in Nat
      BY QueueTyped, TokenCacheAssumption DEF Inv, Types
    <2>2. CASE kind = "azure"
      <3> DEFINE p == (queue[i].overtaken + 1) * JobTimeout
      <3>1. now <= a + p
        BY <2>2 DEF Inv, JobsInTime, DoneBy
      <3>2. p \in Nat
        BY <2>1
      <3>3. now - a <= p
        <4> HIDE DEF p, a
        <4> QED
          BY <2>1, <3>1, <3>2
      <3> QED
        BY <2>2, <3>3
    <2>3. CASE kind # "azure"
      <3> DEFINE k == Begun(i)
                 p == k * FetchTimeout
                 w == n * FetchTimeout
      <3>1. k \in Nat /\ Since <= a + p
        BY <2>3 DEF Inv, PlacesInTime
      <3>2. k + 1 <= n
        BY <2>1 DEF Begun
      <3>3. now <= Since + FetchTimeout /\ Since \in Nat
        BY <2>1, <2>3 DEF Inv, Types, HolderInTime, Since
      <3> HIDE DEF k, n, a
      <3>4. p \in Nat /\ p + FetchTimeout <= w /\ w \in Nat
        <4>1. (k + 1) * FetchTimeout = p + FetchTimeout /\ p \in Nat
          BY <2>1, <3>1, OneMoreRequest
        <4>2. (k + 1) * FetchTimeout <= w
          BY <2>1, <3>1, <3>2, MoreRequests
        <4>3. w \in Nat
          BY <2>1
        <4> QED
          BY <4>1, <4>2, <4>3
      <3> HIDE DEF p, w
      <3>5. now - a <= w
        BY <2>1, <3>1, <3>3, <3>4
      <3> QED
        BY <2>3, <3>5 DEF w, n, a
    <2> QED
      BY <2>2, <2>3
  <1> QED
    BY <1>1, InvAlways, PTL
=============================================================================
