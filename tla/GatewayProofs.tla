---------------------------- MODULE GatewayProofs ----------------------------
(***************************************************************************)
(* The two parts of the app that live with what the gateway answers.       *)
(*                                                                         *)
(* The feed of security events (SecurityFeed), for any accounts, any       *)
(* number of events, faults and account changes and any capacities: no     *)
(* event is missed once a connection has caught up, but for those a named  *)
(* loss covers.  The invariant says at each place of the task where an     *)
(* event not yet shown still is.                                           *)
(*                                                                         *)
(* The check a refused bearer sets off (BearerRecovery), for any requests, *)
(* sweeps and bound on bearers: its latch is set exactly while one check   *)
(* is in flight, a request that waits will be woken, and one that joined a *)
(* check does not give up before the check has decided.                    *)
(***************************************************************************)
EXTENDS SecurityFeed, BearerRecovery, SequenceTheorems, TLAPS

\* An event is given up, or its request is shown; or it is admitted and about to be
\* shown, under one of its two ids.
Shown(k)  ==
    \/ k \in lost
    \/ \E j \in Events, kind \in {"live", "history"} :
          request[j] = request[k] /\ <<kind, j>> \in shown
Handed(k) == \E kind \in {"live", "history"} : <<kind, k>> = hand
\* No account change is under way, and none went by the connection.
Quiet     == change = "none" /\ ~behind
\* The events of the account the connection is for, and those on its stream.
Own       == {k \in Events : published[k] = cred}
OnWire    == ToSet(wire)

\* What the variables hold.  The stream carries the account's events in order, the
\* feed keeps ids within its two bounds, and all are of events published.
Shape ==
    /\ account \in Accounts \cup {Nobody} /\ rejected \in BOOLEAN
    /\ change \in {"none", "recent", "seen"}
    /\ published \in Seq(Accounts) /\ Len(published) <= MaxEvents
    /\ request \in Seq(Nat) /\ Len(request) = Len(published)
    /\ at \in {"top", "rest", "asked", "open", "fetch", "sent", "merge", "read"}
    /\ cred \in Accounts \cup {Nobody}
    /\ cred \in Accounts <=> Connected
    /\ behind \in BOOLEAN
    /\ state \in {"live", "reconnecting", "offline"}
    /\ state = "live" => Connected

Carried ==
    /\ wire \in Seq(Nat)
    /\ at \in {"top", "rest", "asked"} => wire = <<>>
    /\ \A i \in DOMAIN wire : wire[i] \in Own
    /\ \A i, j \in DOMAIN wire : i < j => wire[i] < wire[j]

Kept ==
    /\ recent \in Seq(Ids) /\ Len(recent) <= RECENT_CAPACITY
    /\ seen \in Seq(Ids) /\ Len(seen) <= DEDUPE_CAPACITY
    /\ \A i, j \in DOMAIN seen : seen[i] = seen[j] => i = j

Bounded ==
    /\ hand \in Ids \cup {Nothing}
    /\ hand # Nothing => at \in {"merge", "read"} /\ hand[2] \in Events
    /\ page \subseteq Events
    /\ \A i \in DOMAIN recent : recent[i][2] \in Events
    /\ at = "sent" => ask[2] \in Nat /\ ask[2] <= Len(published)

\* An id is remembered only once shown or in hand, so that what Admit turns away is
\* not lost; an account change empties the buffer before it forgets, and gives up what is
\* older than an event that comes between.
Remembered ==
    /\ change # "seen" => \A i \in DOMAIN seen : seen[i] \in shown \/ seen[i] = hand
    /\ \A i \in DOMAIN recent : recent[i] \in shown
    /\ change = "seen" /\ recent # <<>> => 1..(Last(recent)[2] - 1) \subseteq lost

\* A connection no account change went by is for the account that is stored.
OneAccount == Connected /\ ~behind /\ change = "none" => cred = account

\* What the history is asked from: nothing of the account's is missing before the
\* newest event in the buffer.
Boundary ==
    change = "none" /\ recent # <<>> =>
        \A k \in Events : published[k] = account /\ k < Last(recent)[2] => Shown(k)

\* From the question on: before its boundary all is shown; then what is not shown is
\* in the page or on the stream, the page is merged oldest first, and what is in
\* hand comes after all that was shown.
Asked ==
    Quiet /\ at = "sent" => ask[1] = cred /\ \A k \in Own : k < ask[2] => Shown(k)
Paged ==
    Quiet /\ at = "merge" =>
        /\ \A k \in Own : Shown(k) \/ Handed(k) \/ k \in page \/ k \in OnWire
        /\ \A j \in page, k \in Own : k < j => Shown(k) \/ Handed(k) \/ k \in page
Reading ==
    Quiet /\ at = "read" => \A k \in Own : Shown(k) \/ Handed(k) \/ k \in OnWire
InHand ==
    Quiet /\ hand # Nothing => \A k \in Own : k < hand[2] => Shown(k)

FeedInv == /\ Shape /\ Carried /\ Kept /\ Bounded /\ Remembered /\ OneAccount
           /\ Boundary /\ Asked /\ Paged /\ Reading /\ InHand

\* The last n of a sequence: a stretch of it that ends where it ends.
LEMMA Latest ==
    ASSUME NEW S, NEW a \in Seq(S), a # <<>>, NEW n \in Nat \ {0}
    PROVE  /\ LastOf(a, n) \in Seq(S) /\ Len(LastOf(a, n)) <= n /\ LastOf(a, n) # <<>>
           /\ Last(LastOf(a, n)) = Last(a)
           /\ \E m \in Nat : \A i \in DOMAIN LastOf(a, n) :
                 i + m \in DOMAIN a /\ LastOf(a, n)[i] = a[i + m]
<1> SUFFICES ASSUME NEW l, l = LastOf(a, n)
    PROVE  /\ l \in Seq(S) /\ Len(l) <= n /\ l # <<>> /\ Last(l) = Last(a)
           /\ \E m \in Nat : \A i \in DOMAIN l : i + m \in DOMAIN a /\ l[i] = a[i + m]
  OBVIOUS
<1>1. Len(a) \in Nat /\ Len(a) > 0 /\ DOMAIN a = 1..Len(a) /\ \A i \in 1..Len(a) : a[i] \in S
  BY LenProperties
<1>2. CASE Len(a) > n
  <2>1. PICK m \in Nat : m = Len(a) - n
    <3>1. Len(a) - n \in Nat
      BY <1>1, <1>2
    <3> QED
      BY <3>1, Zenon
  <2>2. m + 1 \in 1..Len(a) /\ l = SubSeq(a, m + 1, Len(a))
    <3>1. m + 1 = Len(a) - n + 1 /\ m + 1 \in 1..Len(a)
      BY <2>1, <1>1, <1>2
    <3> QED
      BY <1>2, <3>1 DEF LastOf
  <2>3. l \in Seq(S) /\ Len(l) = n /\ \A i \in 1..n : l[i] = a[m + i]
    <3>1. \A i \in (m + 1)..Len(a) : a[i] \in S
      BY <2>1, <1>1
    <3>2. /\ SubSeq(a, m + 1, Len(a)) \in Seq(S)
          /\ Len(SubSeq(a, m + 1, Len(a))) = IF m + 1 <= Len(a) THEN Len(a) - (m + 1) + 1 ELSE 0
          /\ \A i \in 1 .. Len(a) - (m + 1) + 1 :
                SubSeq(a, m + 1, Len(a))[i] = a[(m + 1) + i - 1]
      BY <3>1, <2>1, <1>1, SubSeqProperties
    <3>3. \A i \in Int : (m + 1) + i - 1 = m + i
      BY <2>1
    <3> QED
      BY <3>2, <3>3, <2>1, <2>2, <1>1, <1>2
  <2>4. \A i \in DOMAIN l : i + m \in DOMAIN a /\ l[i] = a[i + m]
    BY <2>1, <2>3, <1>1
  <2>5. Last(l) = Last(a) /\ l # <<>> /\ Len(l) <= n
    BY <2>1, <2>3, <1>1 DEF Last
  <2> QED
    BY <2>1, <2>3, <2>4, <2>5
<1>3. CASE ~(Len(a) > n)
  <2>1. l = a
    BY <1>3 DEF LastOf
  <2>2. \A i \in DOMAIN l : i + 0 \in DOMAIN a /\ l[i] = a[i + 0]
    BY <2>1, <1>1
  <2>3. \E m \in Nat : \A i \in DOMAIN l : i + m \in DOMAIN a /\ l[i] = a[i + m]
    <3> WITNESS 0 \in Nat
    <3> QED
      BY <2>2
  <2>4. l \in Seq(S) /\ Len(l) <= n /\ l # <<>> /\ Last(l) = Last(a)
    BY <2>1, <1>1, <1>3
  <2> QED
    BY <2>3, <2>4, Zenon
<1> QED
  BY <1>2, <1>3

\* Both ids of an event are ids, and none is the absence of one.
LEMMA EventIds ==
    ASSUME Shape, NEW k \in Events
    PROVE  /\ k \in Nat /\ <<"live", k>> \in Ids /\ <<"history", k>> \in Ids
           /\ <<"live", k>> # Nothing /\ <<"history", k>> # Nothing
<1>1. Len(published) \in Nat /\ Len(published) <= MaxEvents /\ MaxEvents \in Nat
  BY LenProperties, FeedAssumption DEF Shape
<1>2. k \in 1..MaxEvents
  BY <1>1 DEF Events
<1> QED
  BY <1>2, FeedAssumption DEF Ids

LEMMA ShownIds ==
    ASSUME NEW k \in Events, <<"live", k>> \in shown \/ <<"history", k>> \in shown
    PROVE  Shown(k)
BY DEF Shown

LEMMA ShownStill ==
    ASSUME UNCHANGED gateway, shown \subseteq shown', lost \subseteq lost'
    PROVE  \A k : Shown(k) => Shown(k)'
BY DEF gateway, Shown, Events

\* What is remembered is what was, or what is in hand.
Grows == \A i \in DOMAIN seen' : seen'[i] = hand' \/ \E j \in DOMAIN seen : seen'[i] = seen[j]

LEMMA Admission ==
    ASSUME Kept, NEW id \in Ids, Admit(id)
    PROVE  Kept' /\ recent' = recent /\ Grows
<1>1. CASE id \in ToSet(seen)
  BY <1>1 DEF Admit, Kept, Ids, Grows
<1>2. CASE id \notin ToSet(seen)
  <2>1. /\ seen \in Seq(Ids) /\ DOMAIN seen = 1..Len(seen) /\ Len(seen) \in Nat
        /\ seen' = LastOf(Append(seen, id), DEDUPE_CAPACITY) /\ hand' = id /\ recent' = recent
    BY <1>2, LenProperties DEF Admit, Kept
  <2>2. PICK a : a = Append(seen, id)
    OBVIOUS
  <2>3. /\ a \in Seq(Ids) /\ a # <<>> /\ DOMAIN a = 1..(Len(seen) + 1)
        /\ a[Len(seen) + 1] = id /\ \A i \in 1..Len(seen) : a[i] = seen[i]
    BY <2>1, <2>2, AppendProperties, LenProperties
  <2>4. /\ seen' \in Seq(Ids) /\ Len(seen') <= DEDUPE_CAPACITY
        /\ \E m \in Nat : \A i \in DOMAIN seen' : i + m \in DOMAIN a /\ seen'[i] = a[i + m]
    <3>1. seen' = LastOf(a, DEDUPE_CAPACITY) /\ DEDUPE_CAPACITY \in Nat \ {0}
      BY <2>1, <2>2, FeedAssumption
    <3> QED
      BY <2>3, <3>1, Latest, Zenon
  <2>5. PICK m \in Nat : \A i \in DOMAIN seen' : i + m \in DOMAIN a /\ seen'[i] = a[i + m]
    BY <2>4
  <2>6. \A i \in 1..Len(seen) : seen[i] # id
    BY <1>2, <2>1 DEF ToSet
  <2>7. \A k \in DOMAIN a : k = Len(seen) + 1 \/ k \in 1..Len(seen)
    BY <2>1, <2>3
  <2>a. \A k, l \in DOMAIN a : a[k] = a[l] => k = l
    BY <2>1, <2>3, <2>6, <2>7 DEF Kept
  <2>8. DOMAIN seen' \subseteq Nat
    BY <2>4, LenProperties
  <2>9. \A i, j \in DOMAIN seen' : seen'[i] = seen'[j] => i = j
    BY <2>5, <2>8, <2>a
  <2>10. Grows
    BY <2>1, <2>3, <2>5, <2>7 DEF Grows
  <2> QED
    BY <2>1, <2>4, <2>9, <2>10 DEF Kept, Ids
<1> QED
  BY <1>1, <1>2

\* One lemma for each step.
LEMMA SwitchToKeeps ==
    ASSUME FeedInv, NEW a \in Accounts \cup {Nobody}, SwitchTo(a)
    PROVE  FeedInv'
<1> USE DEF FeedInv, gateway
<1>1. Shape'
  BY DEF SwitchTo, Shape, Connected, past
<1>2. Carried'
  BY DEF SwitchTo, Carried, Own, Events
<1>3. Kept'
  BY DEF SwitchTo, Kept, held
<1>4. Bounded'
  BY DEF SwitchTo, Bounded, Events, held
<1>5. Remembered'
  BY DEF SwitchTo, Remembered, held, past
<1>6. OneAccount'
  BY DEF SwitchTo, OneAccount
<1>7. Boundary'
  BY DEF SwitchTo, Boundary
<1>8. Asked'
  BY DEF SwitchTo, Asked, Quiet
<1>9. Paged'
  BY DEF SwitchTo, Paged, Quiet
<1>10. Reading'
  BY DEF SwitchTo, Reading, Quiet, Handed, OnWire, Shape, Connected, users, held, past
<1>11. InHand'
  BY DEF SwitchTo, InHand, Quiet
<1> QED
  BY <1>1, <1>2, <1>3, <1>4, <1>5, <1>6, <1>7, <1>8, <1>9, <1>10, <1>11

LEMMA SignInKeeps ==
    ASSUME FeedInv, SignIn
    PROVE  FeedInv'
<1> USE DEF FeedInv, gateway
<1>1. Shape'
  BY DEF SignIn, Shape, Connected, users, held, past
<1>2. Carried'
  BY DEF SignIn, Carried, Own, Events
<1>3. Kept'
  BY DEF SignIn, Kept, held
<1>4. Bounded'
  BY DEF SignIn, Bounded, Events, held
<1>5. Remembered'
  BY DEF SignIn, Remembered, held, past
<1>6. OneAccount'
  BY DEF SignIn, OneAccount, Connected, past
<1>7. Boundary'
  BY DEF SignIn, Boundary, Shown, Events, held, past
<1>8. Asked'
  BY DEF SignIn, Asked, Quiet, Own, Events, Shown, past
<1>9. Paged'
  BY DEF SignIn, Paged, Quiet, Own, Events, Shown, Handed, OnWire, held, past
<1>10. Reading'
  BY DEF SignIn, Reading, Paged, Quiet, Own, Events, Shown, Handed, OnWire, Shape, Connected,
         users, held, past
<1>11. InHand'
  BY DEF SignIn, InHand, Quiet, Own, Events, Shown, held, past
<1> QED
  BY <1>1, <1>2, <1>3, <1>4, <1>5, <1>6, <1>7, <1>8, <1>9, <1>10, <1>11

LEMMA ClearRecentKeeps ==
    ASSUME FeedInv, ClearRecent
    PROVE  FeedInv'
<1> USE DEF FeedInv, gateway
<1>1. Shape'
  <2>1. behind' \in BOOLEAN
    BY DEF ClearRecent, Connected
  <2> QED
    BY <2>1 DEF ClearRecent, Shape, Connected, users, held, past
<1>2. Carried'
  BY DEF ClearRecent, Carried, Own, Events
<1>3. Kept'
  BY FeedAssumption DEF ClearRecent, Kept, users, held, past
<1>4. Bounded'
  BY DEF ClearRecent, Bounded, Events
<1>5. Remembered'
  BY DEF ClearRecent, Remembered
<1>6. OneAccount'
  BY DEF ClearRecent, OneAccount
<1>7. Boundary'
  BY DEF ClearRecent, Boundary
<1>8. Asked'
  BY DEF ClearRecent, Asked, Quiet
<1>9. Paged'
  BY DEF ClearRecent, Paged, Quiet
<1>10. Reading'
  BY DEF ClearRecent, Reading, Quiet
<1>11. InHand'
  BY DEF ClearRecent, InHand, Quiet
<1> QED
  BY <1>1, <1>2, <1>3, <1>4, <1>5, <1>6, <1>7, <1>8, <1>9, <1>10, <1>11

LEMMA ClearSeenKeeps ==
    ASSUME FeedInv, ClearSeen
    PROVE  FeedInv'
<1> USE DEF FeedInv, gateway
<1>1. Shape'
  BY DEF ClearSeen, Shape, Connected
<1>2. Carried'
  BY DEF ClearSeen, Carried, Own, Events
<1>3. Kept'
  BY FeedAssumption DEF ClearSeen, Kept, users, held, past
<1>4. Bounded'
  BY DEF ClearSeen, Bounded, Events
<1>5. Remembered'
  BY DEF ClearSeen, Remembered
<1>6. OneAccount'
  BY DEF ClearSeen, OneAccount, Connected, Shape, users, held, past
<1>7. Boundary'
  <2> SUFFICES ASSUME recent' # <<>>, NEW k \in Events', k < Last(recent')[2] PROVE Shown(k)'
    BY DEF Boundary
  <2>1. recent' = recent /\ lost' = lost /\ k \in Events /\ Last(recent)[2] \in Events
    BY LenProperties DEF ClearSeen, Events, Kept, Bounded, Last
  <2>2. k \in 1..(Last(recent)[2] - 1)
    BY <2>1 DEF Events
  <2> QED
    BY <2>1, <2>2 DEF ClearSeen, Remembered, Shown
<1>8. Asked'
  BY DEF ClearSeen, Asked, Quiet, Own, Events, Shown, OneAccount, Boundary, Shape, Connected,
         users, held, past
<1>9. Paged'
  BY DEF ClearSeen, Paged, Quiet, Own, Events, Shape, Remembered, users, held, past
<1>10. Reading'
  BY DEF ClearSeen, Reading, Quiet, Own, Events, Shape, users, held, past
<1>11. InHand'
  BY DEF ClearSeen, InHand, Quiet, Own, Events, Shape, Handed, users, held, past
<1> QED
  BY <1>1, <1>2, <1>3, <1>4, <1>5, <1>6, <1>7, <1>8, <1>9, <1>10, <1>11

LEMMA PublishKeeps ==
    ASSUME FeedInv, NEW a \in Accounts, Publish(a)
    PROVE  FeedInv'
<1> USE DEF FeedInv, gateway
<1>a. /\ published' \in Seq(Accounts) /\ Len(published') = Len(published) + 1
      /\ Len(published) \in Nat /\ \A k \in Events : published'[k] = published[k]
      /\ published'[Len(published) + 1] = a
  BY AppendProperties, LenProperties DEF Publish, Shape, Events
<1>b. Events' = Events \cup {Len(published) + 1}
  BY <1>a DEF Events
<1>r. /\ request' \in Seq(Nat) /\ Len(request') = Len(request) + 1
      /\ \A k \in Events : request'[k] = request[k]
  <2>1. PICK r \in Decides(a) : request' = Append(request, r)
    BY DEF Publish
  <2>2. r \in Nat
    BY <1>a, <2>1 DEF Decides, Events
  <2> QED
    BY <2>1, <2>2, AppendProperties, LenProperties DEF Shape, Events
<1>s. \A k \in Events : Shown(k) => Shown(k)'
  BY <1>a, <1>b, <1>r DEF Publish, past, Shown
<1>c. Own' = IF cred = a THEN Own \cup {Len(published) + 1} ELSE Own
  BY <1>a, <1>b DEF Own, Publish, Events
<1>d. Connected /\ at # "asked" /\ cred = a => OnWire' = OnWire \cup {Len(published) + 1}
  <2> SUFFICES ASSUME Connected, at # "asked", cred = a
               PROVE  OnWire' = OnWire \cup {Len(published) + 1}
    OBVIOUS
  <2>1. wire' = Append(wire, Len(published) + 1) /\ wire \in Seq(Nat)
    BY <1>a DEF Publish, Carried
  <2>2. /\ Len(wire') = Len(wire) + 1 /\ Len(wire) \in Nat
        /\ DOMAIN wire = 1..Len(wire) /\ DOMAIN wire' = 1..Len(wire')
        /\ \A i \in 1..Len(wire) : wire'[i] = wire[i]
        /\ wire'[Len(wire) + 1] = Len(published) + 1
    BY <1>a, <2>1, AppendProperties, LenProperties
  <2> QED
    BY <2>2 DEF OnWire, ToSet
<1>e. ~(Connected /\ at # "asked" /\ cred = a) => OnWire' = OnWire
  BY DEF Publish, OnWire
<1>f. UNCHANGED <<shown, lost, hand, page, ask, recent, change, behind, at, cred, account>>
  BY DEF Publish, users, held, past
<1>1. Shape'
  BY <1>a, <1>r, FeedAssumption DEF Publish, Shape, Connected, users, held, past
<1>2. Carried'
  <2>1. CASE wire' = wire
    BY <1>c, <1>f, <2>1 DEF Carried
  <2>2. CASE wire' # wire
    <3>1. Connected /\ at # "asked" /\ cred = a /\ wire' = Append(wire, Len(published) + 1)
      BY <1>a, <2>2 DEF Publish
    <3>a. wire \in Seq(Nat) /\ Len(published) + 1 \in Nat
      BY <1>a DEF Carried
    <3>2. /\ wire \in Seq(Nat) /\ wire' \in Seq(Nat) /\ Len(wire') = Len(wire) + 1 /\ Len(wire) \in Nat
          /\ DOMAIN wire = 1..Len(wire) /\ DOMAIN wire' = 1..Len(wire')
          /\ \A i \in 1..Len(wire) : wire'[i] = wire[i]
          /\ wire'[Len(wire) + 1] = Len(published) + 1
      BY <3>a, <3>1, AppendProperties, LenProperties
    <3>b. \A k \in Own : k < Len(published) + 1
      BY <1>a DEF Own, Events
    <3>3. \A i \in 1..Len(wire) : wire[i] \in Own /\ wire[i] < Len(published) + 1
      BY <3>2, <3>b DEF Carried
    <3>4. \A i \in DOMAIN wire' : wire'[i] \in Own'
      BY <1>c, <3>1, <3>2, <3>3
    <3>c. \A i, j \in 1..Len(wire) : i < j => wire[i] < wire[j]
      BY <3>2 DEF Carried
    <3>d. \A i \in DOMAIN wire' : i \in 1..Len(wire) \/ i = Len(wire) + 1
      BY <3>2
    <3>5. \A i, j \in DOMAIN wire' : i < j => wire'[i] < wire'[j]
      <4> SUFFICES ASSUME NEW i \in DOMAIN wire', NEW j \in DOMAIN wire', i < j
                   PROVE  wire'[i] < wire'[j]
        OBVIOUS
      <4>1. i \in 1..Len(wire) /\ wire'[i] = wire[i]
        <5>1. i \in Nat /\ j \in Nat /\ j <= Len(wire) + 1 /\ 1 <= i /\ Len(wire) \in Nat
          BY <3>2
        <5>2. i \in 1..Len(wire)
          BY <5>1
        <5> QED
          BY <3>2, <5>2
      <4>2. CASE j \in 1..Len(wire)
        BY <3>2, <3>c, <4>1, <4>2
      <4>3. CASE j = Len(wire) + 1
        BY <3>2, <3>3, <4>1, <4>3
      <4> QED
        BY <3>d, <4>2, <4>3
    <3>6. at' \notin {"top", "rest", "asked"}
      BY <1>f, <3>1 DEF Connected
    <3> QED
      BY <3>2, <3>4, <3>5, <3>6 DEF Carried
  <2> QED
    BY <2>1, <2>2
<1>3. Kept'
  BY DEF Publish, Kept, held
<1>4. Bounded'
  BY DEF Publish, Bounded, Events, users, held
<1>5. Remembered'
  BY DEF Publish, Remembered, users, held, past
<1>6. OneAccount'
  BY DEF Publish, OneAccount, Connected, users, past
<1>7. Boundary'
  <2>1. recent # <<>> => Last(recent)[2] \in Events
    BY LenProperties DEF Kept, Bounded, Last
  <2> QED
    BY <1>a, <1>b, <1>f, <1>s, <2>1 DEF Boundary, Events
<1>8. Asked'
  BY <1>a, <1>b, <1>c, <1>f, <1>s DEF Asked, Quiet, Bounded, Own, Events
<1>9. Paged'
  <2> SUFFICES ASSUME Quiet', at' = "merge"
               PROVE  /\ \A k \in Own' : Shown(k)' \/ Handed(k)' \/ k \in page' \/ k \in OnWire'
                      /\ \A j \in page', k \in Own' : k < j => Shown(k)' \/ Handed(k)' \/ k \in page'
    BY DEF Paged
  <2>1. /\ \A k \in Own : Shown(k) \/ Handed(k) \/ k \in page \/ k \in OnWire
        /\ \A j \in page, k \in Own : k < j => Shown(k) \/ Handed(k) \/ k \in page
    BY <1>f DEF Paged, Quiet
  <2>2. Connected /\ at # "asked"
    BY <1>f DEF Connected
  <2>3. \A k \in Events : (Shown(k) => Shown(k)') /\ Handed(k)' = Handed(k)
    BY <1>f, <1>s DEF Handed
  <2>4. \A j \in page' : ~(Len(published) + 1 < j)
    BY <1>a, <1>f DEF Bounded, Events
  <2> QED
    BY <1>c, <1>d, <1>e, <1>f, <2>1, <2>2, <2>3, <2>4 DEF Own
<1>10. Reading'
  <2> SUFFICES ASSUME Quiet', at' = "read"
               PROVE  \A k \in Own' : Shown(k)' \/ Handed(k)' \/ k \in OnWire'
    BY DEF Reading
  <2>1. \A k \in Own : Shown(k) \/ Handed(k) \/ k \in OnWire
    BY <1>f DEF Reading, Quiet
  <2>2. Connected /\ at # "asked"
    BY <1>f DEF Connected
  <2>3. \A k \in Events : (Shown(k) => Shown(k)') /\ Handed(k)' = Handed(k)
    BY <1>f, <1>s DEF Handed
  <2> QED
    BY <1>c, <1>d, <1>e, <2>1, <2>2, <2>3 DEF Own
<1>11. InHand'
  BY <1>a, <1>b, <1>c, <1>f, <1>s DEF InHand, Quiet, Own, Events, Bounded
<1> QED
  BY <1>1, <1>2, <1>3, <1>4, <1>5, <1>6, <1>7, <1>8, <1>9, <1>10, <1>11

LEMMA ConnectKeeps ==
    ASSUME FeedInv, Connect
    PROVE  FeedInv'
<1> USE DEF FeedInv, gateway
<1>1. Shape'
  BY DEF Connect, Credential, Shape, Connected, users, past
<1>2. Carried'
  BY DEF Connect, Carried
<1>3. Kept'
  BY DEF Connect, Kept, held
<1>4. Bounded'
  BY DEF Connect, Bounded, Events, held
<1>5. Remembered'
  BY DEF Connect, Remembered, users, held, past
<1>6. OneAccount'
  BY DEF Connect, Credential, OneAccount, users
<1>7. Boundary'
  BY DEF Connect, Boundary, Shown, Events, users, held, past
<1>8. Asked'
  BY DEF Connect, Asked
<1>9. Paged'
  BY DEF Connect, Paged
<1>10. Reading'
  BY DEF Connect, Reading
<1>11. InHand'
  BY DEF Connect, InHand, Bounded, held
<1> QED
  BY <1>1, <1>2, <1>3, <1>4, <1>5, <1>6, <1>7, <1>8, <1>9, <1>10, <1>11

LEMMA NotReadyKeeps ==
    ASSUME FeedInv, NotReady
    PROVE  FeedInv'
<1> USE DEF FeedInv, gateway
<1>1. Shape'
  BY DEF NotReady, Credential, Rest, Shape, Connected, users, held, past
<1>2. Carried'
  BY DEF NotReady, Rest, Carried
<1>3. Kept'
  BY DEF NotReady, Kept, held
<1>4. Bounded'
  BY DEF NotReady, Rest, Bounded, Events, held
<1>5. Remembered'
  BY DEF NotReady, Remembered, users, held
<1>6. OneAccount'
  BY DEF NotReady, Rest, OneAccount, Connected
<1>7. Boundary'
  BY DEF NotReady, Boundary, Shown, Events, users, held
<1>8. Asked'
  BY DEF NotReady, Rest, Asked
<1>9. Paged'
  BY DEF NotReady, Rest, Paged
<1>10. Reading'
  BY DEF NotReady, Rest, Reading
<1>11. InHand'
  BY FeedAssumption DEF NotReady, Rest, InHand, Own, Events, Shape
<1> QED
  BY <1>1, <1>2, <1>3, <1>4, <1>5, <1>6, <1>7, <1>8, <1>9, <1>10, <1>11

LEMMA AcceptedKeeps ==
    ASSUME FeedInv, Accepted
    PROVE  FeedInv'
<1> USE DEF FeedInv, gateway
<1>1. Shape'
  BY DEF Accepted, Shape, Connected, users, past
<1>2. Carried'
  BY DEF Accepted, Carried
<1>3. Kept'
  BY DEF Accepted, Kept, held
<1>4. Bounded'
  BY DEF Accepted, Bounded, Events, held
<1>5. Remembered'
  BY DEF Accepted, Remembered, users, held, past
<1>6. OneAccount'
  BY DEF Accepted, OneAccount, Connected, users, past
<1>7. Boundary'
  BY DEF Accepted, Boundary, Shown, Events, users, held, past
<1>8. Asked'
  BY DEF Accepted, Asked
<1>9. Paged'
  BY DEF Accepted, Paged
<1>10. Reading'
  BY DEF Accepted, Reading
<1>11. InHand'
  BY DEF Accepted, InHand, Bounded, held
<1> QED
  BY <1>1, <1>2, <1>3, <1>4, <1>5, <1>6, <1>7, <1>8, <1>9, <1>10, <1>11

LEMMA RefusedKeeps ==
    ASSUME FeedInv, Refused
    PROVE  FeedInv'
<1> USE DEF FeedInv, gateway
<1>1. Shape'
  BY FeedAssumption DEF Refused, Rest, Fault, Shape, Connected, users, held, past
<1>2. Carried'
  BY DEF Refused, Rest, Carried
<1>3. Kept'
  BY DEF Refused, Kept, held
<1>4. Bounded'
  BY DEF Refused, Rest, Bounded, Events, held
<1>5. Remembered'
  BY DEF Refused, Remembered, held
<1>6. OneAccount'
  BY DEF Refused, Rest, OneAccount, Connected
<1>7. Boundary'
  BY DEF Refused, Boundary, Shown, Events, held
<1>8. Asked'
  BY DEF Refused, Rest, Asked
<1>9. Paged'
  BY DEF Refused, Rest, Paged
<1>10. Reading'
  BY DEF Refused, Rest, Reading
<1>11. InHand'
  BY FeedAssumption DEF Refused, Rest, InHand, Own, Events, Shape
<1> QED
  BY <1>1, <1>2, <1>3, <1>4, <1>5, <1>6, <1>7, <1>8, <1>9, <1>10, <1>11

LEMMA EndedKeeps ==
    ASSUME FeedInv, Ended
    PROVE  FeedInv'
<1> USE DEF FeedInv, gateway
<1>1. Shape'
  BY FeedAssumption DEF Ended, Rest, Fault, Shape, Connected, users, held, past
<1>2. Carried'
  BY DEF Ended, Rest, Carried
<1>3. Kept'
  BY DEF Ended, Kept, held
<1>4. Bounded'
  BY DEF Ended, Rest, Bounded, Events, held
<1>5. Remembered'
  BY DEF Ended, Remembered, users, held
<1>6. OneAccount'
  BY DEF Ended, Rest, OneAccount, Connected
<1>7. Boundary'
  BY DEF Ended, Boundary, Shown, Events, users, held
<1>8. Asked'
  BY DEF Ended, Rest, Asked
<1>9. Paged'
  BY DEF Ended, Rest, Paged
<1>10. Reading'
  BY DEF Ended, Rest, Reading, Handed, OnWire, Shape, Connected, users, held, past
<1>11. InHand'
  BY FeedAssumption DEF Ended, Rest, InHand, Own, Events, Shape
<1> QED
  BY <1>1, <1>2, <1>3, <1>4, <1>5, <1>6, <1>7, <1>8, <1>9, <1>10, <1>11

LEMMA WakeKeeps ==
    ASSUME FeedInv, Wake
    PROVE  FeedInv'
<1> USE DEF FeedInv, gateway
<1>1. Shape'
  BY DEF Wake, Shape, Connected, users, past
<1>2. Carried'
  BY DEF Wake, Carried
<1>3. Kept'
  BY DEF Wake, Kept, held
<1>4. Bounded'
  BY DEF Wake, Bounded, Events, held
<1>5. Remembered'
  BY DEF Wake, Remembered, users, held, past
<1>6. OneAccount'
  BY DEF Wake, OneAccount, Connected
<1>7. Boundary'
  BY DEF Wake, Boundary, Shown, Events, users, held, past
<1>8. Asked'
  BY DEF Wake, Asked
<1>9. Paged'
  BY DEF Wake, Paged
<1>10. Reading'
  BY DEF Wake, Reading
<1>11. InHand'
  BY DEF Wake, InHand, Own, Events, Shape, Connected
<1> QED
  BY <1>1, <1>2, <1>3, <1>4, <1>5, <1>6, <1>7, <1>8, <1>9, <1>10, <1>11

LEMMA HelloKeeps ==
    ASSUME FeedInv, Hello
    PROVE  FeedInv'
<1> USE DEF FeedInv, gateway
<1>1. Shape'
  BY DEF Hello, Shape, Connected, users, past
<1>2. Carried'
  BY DEF Hello, Carried, Own, Events
<1>3. Kept'
  BY DEF Hello, Kept, held
<1>4. Bounded'
  BY DEF Hello, Bounded, Events, held
<1>5. Remembered'
  BY DEF Hello, Remembered, users, held, past
<1>6. OneAccount'
  BY DEF Hello, OneAccount, Connected, users, past
<1>7. Boundary'
  BY DEF Hello, Boundary, Shown, Events, users, held, past
<1>8. Asked'
  BY DEF Hello, Asked
<1>9. Paged'
  BY DEF Hello, Paged
<1>10. Reading'
  BY DEF Hello, Reading
<1>11. InHand'
  BY DEF Hello, InHand, Bounded, held
<1> QED
  BY <1>1, <1>2, <1>3, <1>4, <1>5, <1>6, <1>7, <1>8, <1>9, <1>10, <1>11

LEMMA FetchKeeps ==
    ASSUME FeedInv, Fetch
    PROVE  FeedInv'
<1> USE DEF FeedInv, gateway
<1>1. Shape'
  BY DEF Fetch, Shape, Connected, users, past
<1>2. Carried'
  BY DEF Fetch, Carried, Own, Events
<1>3. Kept'
  BY DEF Fetch, Kept, held
<1>4. Bounded'
  <2>1. NewestAt \in Nat /\ NewestAt <= Len(published)
    <3>1. recent # <<>> => Last(recent)[2] \in Events
      BY LenProperties DEF Kept, Bounded, Last
    <3> QED
      BY <3>1, LenProperties DEF NewestAt, Events, Shape
  <2> QED
    BY <2>1 DEF Fetch, Bounded, Events, Ids, users, held
<1>5. Remembered'
  BY DEF Fetch, Remembered, users, held, past
<1>6. OneAccount'
  BY DEF Fetch, OneAccount, Connected, users, past
<1>7. Boundary'
  BY DEF Fetch, Boundary, Shown, Events, users, held, past
<1>8. Asked'
  BY DEF Fetch, Credential, NewestAt, Asked, Quiet, Own, Events, Shown, OneAccount, Boundary,
         Connected, users, past
<1>9. Paged'
  BY DEF Fetch, Paged
<1>10. Reading'
  BY DEF Fetch, Reading
<1>11. InHand'
  BY DEF Fetch, InHand, Bounded, held
<1> QED
  BY <1>1, <1>2, <1>3, <1>4, <1>5, <1>6, <1>7, <1>8, <1>9, <1>10, <1>11

LEMMA CatchUpFailedKeeps ==
    ASSUME FeedInv, CatchUpFailed
    PROVE  FeedInv'
<1> USE DEF FeedInv, gateway
<1>1. Shape'
  BY DEF CatchUpFailed, Shape, Connected, users
<1>2. Carried'
  BY DEF CatchUpFailed, Carried, Own, Events
<1>3. Kept'
  BY DEF CatchUpFailed, Kept, held
<1>4. Bounded'
  BY DEF CatchUpFailed, Bounded, Events, held
<1>5. Remembered'
  BY DEF CatchUpFailed, Remembered, users, held
<1>6. OneAccount'
  BY DEF CatchUpFailed, OneAccount
<1>7. Boundary'
  BY DEF CatchUpFailed, Boundary, Shown, Events, users, held
<1>8. Asked'
  BY DEF CatchUpFailed, Asked
<1>9. Paged'
  BY DEF CatchUpFailed, Paged
<1>10. Reading'
  BY DEF CatchUpFailed, Reading, Quiet, Handed, OnWire, Shape, Connected, users, held, past
<1>11. InHand'
  BY DEF CatchUpFailed, InHand, Quiet
<1> QED
  BY <1>1, <1>2, <1>3, <1>4, <1>5, <1>6, <1>7, <1>8, <1>9, <1>10, <1>11

LEMMA CaughtUpKeeps ==
    ASSUME FeedInv, CaughtUp
    PROVE  FeedInv'
<1> USE DEF FeedInv, gateway
<1>1. Shape'
  BY DEF CaughtUp, Shape, Connected, users, past
<1>2. Carried'
  BY DEF CaughtUp, Carried, Own, Events
<1>3. Kept'
  BY DEF CaughtUp, Kept, held
<1>4. Bounded'
  BY DEF CaughtUp, History, Bounded, Events, held
<1>5. Remembered'
  BY DEF CaughtUp, Remembered, users, held, past
<1>6. OneAccount'
  BY DEF CaughtUp, OneAccount, Connected, users, past
<1>7. Boundary'
  BY DEF CaughtUp, Boundary, Shown, Events, users, held, past
<1>8. Asked'
  BY DEF CaughtUp, Asked
<1>9. Paged'
  <2>1. Quiet' => Quiet /\ ask[1] = cred /\ \A k \in Own : k < ask[2] => Shown(k)
    BY DEF CaughtUp, Asked, Quiet, users, past
  <2>2. {k \in Events : published[k] = ask[1] /\ k >= ask[2]} \subseteq page' \cup lost'
    BY DEF CaughtUp, History
  <2>3. Own' = Own /\ Own \subseteq Events /\ Events \subseteq Nat
    BY DEF CaughtUp, Own, Events
  <2>4. \A k \in Own : Shown(k) => Shown(k)'
    BY ShownStill DEF CaughtUp
  <2>5. ask[2] \in Nat
    BY DEF CaughtUp, Bounded
  <2>6. Quiet' => \A k \in Own' : Shown(k)' \/ k \in page'
    <3> SUFFICES ASSUME Quiet', NEW k \in Own' PROVE Shown(k)' \/ k \in page'
      OBVIOUS
    <3>1. k \in Own /\ k \in Nat /\ k \in Events /\ published[k] = ask[1]
      BY <2>1, <2>3 DEF Own
    <3>2. CASE k < ask[2]
      BY <2>1, <2>4, <3>1, <3>2
    <3>3. CASE k >= ask[2]
      BY <2>2, <3>1, <3>3 DEF Shown
    <3> QED
      BY <2>5, <3>1, <3>2, <3>3
  <2> QED
    BY <2>6 DEF Paged
<1>10. Reading'
  BY DEF CaughtUp, Reading
<1>11. InHand'
  BY DEF CaughtUp, InHand, Bounded, held
<1> QED
  BY <1>1, <1>2, <1>3, <1>4, <1>5, <1>6, <1>7, <1>8, <1>9, <1>10, <1>11

LEMMA PutKeeps ==
    ASSUME FeedInv, Put
    PROVE  FeedInv'
<1> USE DEF FeedInv, gateway
<1>a. hand \in Ids /\ hand[2] \in Events /\ at \in {"merge", "read"}
  BY DEF Put, Bounded
<1>b. /\ recent' \in Seq(Ids) /\ Len(recent') <= RECENT_CAPACITY /\ recent' # <<>>
      /\ Last(recent') = hand
      /\ \A i \in DOMAIN recent' :
            recent'[i] = hand \/ \E j \in DOMAIN recent : recent'[i] = recent[j]
  <2>1. /\ recent \in Seq(Ids) /\ DOMAIN recent = 1..Len(recent) /\ Len(recent) \in Nat
        /\ recent' = LastOf(Append(recent, hand), RECENT_CAPACITY)
    BY LenProperties DEF Put, Kept
  <2>2. PICK a : a = Append(recent, hand)
    OBVIOUS
  <2>3. /\ a \in Seq(Ids) /\ a # <<>> /\ Len(a) = Len(recent) + 1 /\ DOMAIN a = 1..Len(a)
        /\ a[Len(a)] = hand /\ \A i \in 1..Len(recent) : a[i] = recent[i]
    BY <1>a, <2>1, <2>2, AppendProperties, LenProperties
  <2>4. /\ recent' \in Seq(Ids) /\ Len(recent') <= RECENT_CAPACITY /\ recent' # <<>>
        /\ Last(recent') = Last(a)
        /\ \E m \in Nat : \A i \in DOMAIN recent' : i + m \in DOMAIN a /\ recent'[i] = a[i + m]
    <3>1. recent' = LastOf(a, RECENT_CAPACITY) /\ RECENT_CAPACITY \in Nat \ {0}
      BY <2>1, <2>2, FeedAssumption
    <3>2. a \in Seq(Ids) /\ a # <<>>
      BY <2>3
    <3> QED
      BY <3>1, <3>2, Latest, Zenon
  <2>5. \A k \in DOMAIN a : a[k] = hand \/ (k \in DOMAIN recent /\ a[k] = recent[k])
    <3>1. \A k \in DOMAIN a : k = Len(a) \/ k \in DOMAIN recent
      BY <2>1, <2>3
    <3> QED
      BY <2>1, <2>3, <3>1
  <2> QED
    BY <2>3, <2>4, <2>5 DEF Last
<1>d. /\ UNCHANGED <<account, change, gateway, at, cred, page, wire, seen, behind, ask>>
      /\ shown' = shown \cup {hand} /\ hand' = Nothing
      /\ lost' = lost \cup IF behind \/ change # "none" THEN 1..(hand[2] - 1) ELSE {}
  BY DEF Put, users, Shape
<1>1. Shape'
  BY DEF Put, Shape, Connected, users
<1>2. Carried'
  BY DEF Put, Carried, Own, Events
<1>3. Kept'
  BY <1>b, <1>d DEF Kept, Ids
<1>4. Bounded'
  BY <1>a, <1>b, <1>d DEF Bounded, Events
<1>5. Remembered'
  BY <1>b, <1>d DEF Remembered
<1>6. OneAccount'
  BY DEF Put, OneAccount, Connected, users
<1>7. Boundary'
  <2> SUFFICES ASSUME NEW k \in Events, published[k] = account, k < hand[2]
               PROVE  Shown(k)'
    BY <1>b, <1>d DEF Boundary, Events
  <2>1. CASE Quiet
    <3>1. Connected
      BY <1>a DEF Connected
    <3>2. k \in Own
      BY <2>1, <3>1 DEF OneAccount, Own, Quiet
    <3>3. Shown(k)
      BY <2>1, <3>2 DEF InHand, Put
    <3> QED
      BY <3>3, <1>d DEF Shown, Events
  <2>2. CASE ~Quiet
    <3>1. k \in 1..(hand[2] - 1)
      BY <1>a DEF Events
    <3> QED
      BY <2>2, <3>1, <1>d DEF Shown, Quiet
  <2> QED
    BY <2>1, <2>2
<1>8. Asked'
  BY DEF Put, Asked, Quiet, Own, Events, Shown, Shape, users
<1>9. Paged'
  BY DEF Put, Paged, Quiet, Own, Events, Shown, Handed, OnWire, Shape, users
<1>10. Reading'
  BY DEF Put, Reading, Paged, Quiet, Own, Events, Shown, Handed, OnWire, Shape, Connected, users,
         held, past
<1>11. InHand'
  BY DEF Put, InHand
<1> QED
  BY <1>1, <1>2, <1>3, <1>4, <1>5, <1>6, <1>7, <1>8, <1>9, <1>10, <1>11

LEMMA MergeKeeps ==
    ASSUME FeedInv, Merge
    PROVE  FeedInv'
<1> USE DEF FeedInv, gateway
<1>a. PICK k \in page : /\ \A j \in page : k <= j
                        /\ page' = page \ {k}
                        /\ IF Held(k) THEN UNCHANGED held ELSE Admit(<<"history", k>>)
  BY DEF Merge
<1>b. hand = Nothing /\ UNCHANGED <<users, gateway, at, cred, wire, ask, past>>
  BY DEF Merge
<1>c. <<"history", k>> \in Ids /\ k \in Events /\ Events \subseteq Nat
  <2>1. k \in Events
    BY DEF Bounded
  <2> QED
    BY <2>1, EventIds DEF Events
<1>d. Kept' /\ recent' = recent /\ Grows
  BY <1>a, <1>c, Admission DEF held, Kept, Grows
<1>e. (hand' = Nothing /\ (change # "seen" => Shown(k))) \/ hand' = <<"history", k>>
  <2>1. CASE Held(k)
    <3>1. PICK i \in DOMAIN recent : request[recent[i][2]] = request[k]
      BY <2>1 DEF Held
    <3>2. recent[i] \in Ids /\ recent[i] \in shown /\ recent[i][2] \in Events
      BY LenProperties DEF Kept, Remembered, Bounded
    <3>3. Shown(k)
      BY <3>1, <3>2 DEF Shown, Ids
    <3> QED
      BY <1>a, <1>b, <2>1, <3>3 DEF held
  <2>2. CASE ~Held(k) /\ <<"history", k>> \in ToSet(seen)
    <3>1. change # "seen" => <<"history", k>> \in shown
      BY <2>2, <1>b, <1>c, FeedAssumption DEF Remembered, ToSet, Ids
    <3> QED
      BY <1>a, <1>b, <1>c, <2>2, <3>1, ShownIds DEF Admit
  <2>3. CASE ~Held(k) /\ <<"history", k>> \notin ToSet(seen)
    BY <1>a, <2>3 DEF Admit
  <2> QED
    BY <2>1, <2>2, <2>3
<1>1. Shape'
  BY DEF Merge, Shape, Connected, users, past
<1>2. Carried'
  BY DEF Merge, Carried, Own, Events
<1>3. Kept'
  BY <1>d
<1>4. Bounded'
  BY FeedAssumption DEF Merge, Admit, Bounded, Ids, Events, Shape, held, past
<1>5. Remembered'
  <2>1. \A j \in DOMAIN seen : seen[j] # Nothing
    BY LenProperties, FeedAssumption DEF Kept, Ids
  <2> QED
    BY <1>b, <1>d, <2>1 DEF Remembered, Grows, users, past
<1>6. OneAccount'
  BY DEF Merge, OneAccount, Connected, users, past
<1>7. Boundary'
  BY DEF Merge, Admit, Boundary, Shown, Events, users, held, past
<1>8. Asked'
  BY DEF Merge, Asked
<1>9. Paged'
  <2> SUFFICES ASSUME Quiet', at' = "merge"
               PROVE  /\ \A i \in Own' : Shown(i)' \/ Handed(i)' \/ i \in page' \/ i \in OnWire'
                      /\ \A j \in page', i \in Own' : i < j => Shown(i)' \/ Handed(i)' \/ i \in page'
    BY DEF Paged
  <2>1. Quiet /\ at = "merge" /\ Own' = Own /\ OnWire' = OnWire
    BY <1>b DEF Quiet, users, past, Own, Events, OnWire
  <2>2. /\ \A i \in Own : ~Handed(i)
        /\ \A i : Shown(i) => Shown(i)'
    BY <1>b, EventIds, ShownStill DEF Handed, past, Own
  <2>3. Shown(k)' \/ Handed(k)'
    BY <1>b, <1>e, <2>1, <2>2 DEF Handed, Quiet
  <2> QED
    BY <1>a, <2>1, <2>2, <2>3 DEF Paged
<1>10. Reading'
  BY DEF Merge, Reading, Handed, OnWire, Shape, Connected, users, held, past
<1>11. InHand'
  <2> SUFFICES ASSUME Quiet', hand' # Nothing, NEW i \in Own', i < hand'[2] PROVE Shown(i)'
    BY DEF InHand
  <2>a. hand'[2] = k
    BY <1>e
  <2>b. i \in Own /\ Quiet /\ at = "merge"
    BY <1>b DEF Quiet, users, past, Own, Events, Merge
  <2>1. Quiet /\ at = "merge" /\ i \in Own /\ i \in Nat /\ i < k
    BY <1>c, <2>a, <2>b DEF Own
  <2>c. ~Handed(i)
    BY <1>b, <2>1, EventIds DEF Handed, Own
  <2>d. i \notin page
    BY <1>a, <1>c, <2>1
  <2>2. ~Handed(i) /\ i \notin page
    BY <2>c, <2>d
  <2> QED
    BY <1>b, <2>1, <2>2, ShownStill DEF Paged, past
<1> QED
  BY <1>1, <1>2, <1>3, <1>4, <1>5, <1>6, <1>7, <1>8, <1>9, <1>10, <1>11

LEMMA MergedKeeps ==
    ASSUME FeedInv, Merged
    PROVE  FeedInv'
<1> USE DEF FeedInv, gateway
<1>1. Shape'
  BY DEF Merged, Shape, Connected, users, past
<1>2. Carried'
  BY DEF Merged, Carried, Own, Events
<1>3. Kept'
  BY DEF Merged, Kept, held
<1>4. Bounded'
  BY DEF Merged, Bounded, Events, held
<1>5. Remembered'
  BY DEF Merged, Remembered, users, held, past
<1>6. OneAccount'
  BY DEF Merged, OneAccount, Connected, users, past
<1>7. Boundary'
  BY DEF Merged, Boundary, Shown, Events, users, held, past
<1>8. Asked'
  BY DEF Merged, Asked
<1>9. Paged'
  BY DEF Merged, Paged
<1>10. Reading'
  BY DEF Merged, Reading, Paged, Quiet, Own, Events, Shown, Handed, OnWire, Shape, Connected,
         users, held, past
<1>11. InHand'
  BY DEF Merged, InHand, held
<1> QED
  BY <1>1, <1>2, <1>3, <1>4, <1>5, <1>6, <1>7, <1>8, <1>9, <1>10, <1>11

LEMMA ReadKeeps ==
    ASSUME FeedInv, Read
    PROVE  FeedInv'
<1> USE DEF FeedInv, gateway
<1>z. PICK k : k = Head(wire)
  OBVIOUS
<1>a. hand = Nothing /\ at = "read" /\ UNCHANGED <<users, gateway, at, cred, page, ask, past>>
  BY DEF Read
<1>b. /\ wire \in Seq(Nat) /\ wire # <<>> /\ DOMAIN wire = 1..Len(wire) /\ Len(wire) \in Nat
      /\ k = wire[1]
  BY <1>z, LenProperties DEF Read, Carried
<1>c. /\ wire' \in Seq(Nat) /\ DOMAIN wire' = 1..Len(wire') /\ Len(wire') = Len(wire) - 1
      /\ \A i \in DOMAIN wire' : wire'[i] = wire[i + 1]
  <2>1. wire' = Tail(wire)
    BY DEF Read
  <2> QED
    BY <1>b, <2>1, HeadTailProperties, LenProperties
<1>d. <<"live", k>> \in Ids /\ k \in Own /\ Own \subseteq Nat
  <2>1. 1 \in DOMAIN wire
    BY <1>b
  <2>2. k \in Own
    BY <1>b, <2>1 DEF Carried
  <2> QED
    BY <2>2, EventIds DEF Own
<1>e. Kept' /\ recent' = recent /\ Grows
  BY <1>z, <1>d, Admission DEF Read
<1>f. (hand' = Nothing /\ (change # "seen" => Shown(k))) \/ hand' = <<"live", k>>
  <2>1. CASE <<"live", k>> \in ToSet(seen)
    <3>1. change # "seen" => <<"live", k>> \in shown
      BY <2>1, <1>a, <1>d, FeedAssumption DEF Remembered, ToSet, Ids
    <3> QED
      BY <1>a, <1>d, <1>z, <2>1, <3>1, ShownIds DEF Read, Admit, Own
  <2>2. CASE <<"live", k>> \notin ToSet(seen)
    BY <1>z, <2>2 DEF Read, Admit
  <2> QED
    BY <2>1, <2>2
<1>g. Own' = Own /\ OnWire \subseteq OnWire' \cup {k} /\ \A i \in OnWire : k <= i
  <2>1. Own' = Own
    BY <1>a DEF Own, Events
  <2>2. \A i \in DOMAIN wire : i = 1 \/ (i - 1 \in DOMAIN wire' /\ wire'[i - 1] = wire[i])
    <3>1. \A i \in DOMAIN wire : i = 1 \/ (i - 1 \in DOMAIN wire' /\ i - 1 + 1 = i)
      BY <1>b, <1>c
    <3> QED
      BY <1>b, <1>c, <3>1
  <2>3. \A i \in DOMAIN wire : wire[1] <= wire[i]
    BY <1>b DEF Carried
  <2> QED
    BY <1>b, <2>1, <2>2, <2>3 DEF OnWire, ToSet
<1>h. \A i \in Own : ~Handed(i) /\ (Shown(i) => Shown(i)')
  BY <1>a, EventIds, ShownStill DEF Handed, past, Own
<1>1. Shape'
  BY DEF Read, Shape, Connected, users, past
<1>2. Carried'
  <2>1. \A i \in DOMAIN wire' : i + 1 \in DOMAIN wire
    BY <1>b, <1>c
  <2>2. \A i \in DOMAIN wire' : wire'[i] \in Own'
    BY <2>1, <1>c, <1>g DEF Carried
  <2>3. \A i, j \in DOMAIN wire' : i < j => wire'[i] < wire'[j]
    BY <2>1, <1>b, <1>c DEF Carried
  <2> QED
    BY <1>a, <1>c, <2>2, <2>3 DEF Carried
<1>3. Kept'
  BY <1>e
<1>4. Bounded'
  <2>1. hand' \in Ids \cup {Nothing} /\ (hand' # Nothing => hand'[2] \in Events)
    BY <1>d, <1>f DEF Own
  <2> QED
    BY <1>a, <1>e, <2>1 DEF Bounded, Events, Ids
<1>5. Remembered'
  <2>1. \A j \in DOMAIN seen : seen[j] # Nothing
    BY LenProperties, FeedAssumption DEF Kept, Ids
  <2> QED
    BY <1>a, <1>e, <2>1 DEF Remembered, Grows, users, past
<1>6. OneAccount'
  BY DEF Read, OneAccount, Connected, users, past
<1>7. Boundary'
  BY DEF Read, Admit, Boundary, Shown, Events, users, past
<1>8. Asked'
  BY DEF Read, Asked
<1>9. Paged'
  BY DEF Read, Paged
<1>10. Reading'
  <2> SUFFICES ASSUME Quiet', NEW i \in Own' PROVE Shown(i)' \/ Handed(i)' \/ i \in OnWire'
    BY DEF Reading
  <2>1. Shown(k)' \/ Handed(k)'
    <3>1. UNCHANGED <<shown, lost, change>> /\ change # "seen"
      BY <1>a DEF Quiet, users, past
    <3> QED
      BY <1>a, <1>f, <3>1, ShownStill DEF Handed
  <2>2. i \in Own /\ (Shown(i) \/ Handed(i) \/ i \in OnWire)
    BY <1>a, <1>g DEF Quiet, users, past, Reading
  <2> QED
    BY <1>g, <1>h, <2>1, <2>2
<1>11. InHand'
  <2> SUFFICES ASSUME Quiet', hand' # Nothing, NEW i \in Own', i < hand'[2] PROVE Shown(i)'
    BY DEF InHand
  <2>1. hand'[2] = k /\ i \in Own /\ Quiet
    BY <1>a, <1>f, <1>g DEF Quiet, users, past
  <2>2. i \notin OnWire
    BY <2>1, <1>b, <1>d, <1>g
  <2> QED
    BY <1>a, <1>h, <2>1, <2>2 DEF Reading
<1> QED
  BY <1>1, <1>2, <1>3, <1>4, <1>5, <1>6, <1>7, <1>8, <1>9, <1>10, <1>11

LEMMA InitFeedInv == Init => FeedInv
<1> SUFFICES ASSUME Init PROVE FeedInv
  OBVIOUS
<1>1. Events = {} /\ ~Connected
  BY DEF Init, Events, Connected
<1>2. Shape
  <2>1. published = <<>> /\ Len(published) = 0 /\ published \in Seq(Accounts)
    BY DEF Init
  <2>2. cred \notin Accounts /\ cred \in Accounts \cup {Nobody}
    BY FeedAssumption DEF Init
  <2>3. Len(published) <= MaxEvents
    BY <2>1, FeedAssumption
  <2>5. request = <<>> /\ Len(request) = 0 /\ request \in Seq(Nat)
    BY DEF Init
  <2>4. /\ account \in Accounts \cup {Nobody} /\ rejected \in BOOLEAN
        /\ change \in {"none", "recent", "seen"}
        /\ at \in {"top", "rest", "asked", "open", "fetch", "sent", "merge", "read"}
        /\ behind \in BOOLEAN
        /\ state \in {"live", "reconnecting", "offline"} /\ state # "live"
    BY DEF Init
  <2> QED
    BY <1>1, <2>1, <2>2, <2>3, <2>4, <2>5, Zenon DEF Shape
<1>3. Carried /\ Kept /\ Bounded /\ Remembered
  BY <1>1, FeedAssumption DEF Init, Carried, Kept, Bounded, Remembered
<1>4. OneAccount /\ Boundary /\ Asked /\ Paged /\ Reading /\ InHand
  BY <1>1 DEF Init, OneAccount, Boundary, Asked, Paged, Reading, InHand
<1> QED
  BY <1>2, <1>3, <1>4 DEF FeedInv

LEMMA StepFeedInv == FeedInv /\ [Next]_vars => FeedInv'
<1> SUFFICES ASSUME FeedInv, [Next]_vars PROVE FeedInv'
  OBVIOUS
<1>1. CASE UNCHANGED vars
  <2>1. Shape' /\ Carried' /\ Kept' /\ Bounded'
    BY <1>1 DEF vars, users, gateway, held, FeedInv, Shape, Carried, Kept, Bounded, Connected, Own, Events,
       Ids, past
  <2>2. Remembered' /\ OneAccount' /\ Boundary'
    BY <1>1 DEF vars, users, gateway, held, past, FeedInv, Remembered, OneAccount, Boundary,
       Connected, Shown, Events
  <2>3. Asked' /\ Paged' /\ Reading' /\ InHand'
    BY <1>1 DEF vars, users, gateway, held, past, FeedInv, Asked, Paged, Reading, InHand, Shown, Handed,
       Quiet, Own, OnWire, Events
  <2> QED
    BY <2>1, <2>2, <2>3 DEF FeedInv
<1>2. CASE Task
  BY <1>2, ConnectKeeps, NotReadyKeeps, AcceptedKeeps, WakeKeeps, HelloKeeps, FetchKeeps,
     CaughtUpKeeps, CatchUpFailedKeeps, MergeKeeps, MergedKeeps, ReadKeeps, PutKeeps DEF Task
<1>3. CASE Refused \/ Ended \/ SignIn \/ Reset
  BY <1>3, RefusedKeeps, EndedKeeps, SignInKeeps, ClearRecentKeeps, ClearSeenKeeps DEF Reset
<1>4. CASE \E a \in Accounts \cup {Nobody} : SwitchTo(a)
  BY <1>4, SwitchToKeeps
<1>5. CASE \E a \in Accounts : Publish(a)
  BY <1>5, PublishKeeps
<1> QED
  BY <1>1, <1>2, <1>3, <1>4, <1>5 DEF Next

LEMMA FeedHolds == Spec => []FeedInv
BY InitFeedInv, StepFeedInv, PTL DEF Spec

\* The feed's state is what its variables declare; its two windows keep within their
\* bounds, and the window of ids has each once (security_feed/client.rs, `deliver').
THEOREM TypeCorrect == Spec => []TypeOK
<1>1. FeedInv => TypeOK
  <2> SUFFICES ASSUME FeedInv PROVE TypeOK
    OBVIOUS
  <2>1. ToSet(wire) \subseteq {k \in Events : published[k] = cred}
    BY DEF FeedInv, Carried, ToSet, Own
  <2>2. ToSet(recent) \subseteq Ids /\ ToSet(seen) \subseteq Ids
    BY LenProperties DEF FeedInv, Kept, ToSet
  <2>3. IsInjective(seen)
    BY DEF FeedInv, Kept, IsInjective
  <2> QED
    BY <2>1, <2>2, <2>3 DEF TypeOK, FeedInv, Shape, Kept, Connected
<1> QED
  BY <1>1, FeedHolds, PTL

\* Once a connection has caught up, every request of its account that was decided about
\* is on screen or still on the stream, whatever the gateway publishes, refuses,
\* truncates or cuts off and whoever signs in or out meanwhile, but for what is `lost':
\* `connect_once' opens the stream before it asks for the history, and `backfill' asks
\* from the newest event the buffer holds (security_feed/client.rs).
THEOREM NothingIsMissed == Spec => []NothingMissed
<1>1. FeedInv => NothingMissed
  <2> SUFFICES ASSUME FeedInv, at = "read", hand = Nothing, Quiet, NEW k \in Own
               PROVE  Shown(k) \/ k \in OnWire
    BY DEF NothingMissed, Quiet, Own, Shown, OnWire
  <2>1. ~Handed(k)
    BY EventIds DEF FeedInv, Handed, Own
  <2> QED
    BY <2>1 DEF FeedInv, Reading
<1> QED
  BY <1>1, FeedHolds, PTL

-----------------------------------------------------------------------------
(***************************************************************************)
(* The check of a refused bearer.                                          *)
(***************************************************************************)
Phases == {"idle"} \cup Deciding \cup Finishing
HoldsLatch   == Deciding \cup {"cool", "unlatch"}

LatchInv ==
    /\ phase \in [Holders -> Phases]
    /\ latch \in BOOLEAN
    /\ OneHolder

LEMMA InitHolds == RecoveryInit => LatchInv
<1> SUFFICES ASSUME RecoveryInit PROVE LatchInv
  OBVIOUS
<1>1. latch = FALSE /\ phase = [h \in Holders |-> "idle"]
  BY DEF RecoveryInit
<1>2. Holding = {}
  BY <1>1 DEF Holding, Deciding
<1>3. phase \in [Holders -> Phases]
  BY <1>1 DEF Phases
<1> QED
  BY <1>1, <1>2, <1>3 DEF LatchInv, OneHolder

LEMMA Still == LatchInv /\ UNCHANGED <<phase, latch>> => LatchInv'
  BY DEF LatchInv, OneHolder, Holding

\* A check that goes on keeps the latch, and one past its release has none.
LEMMA GoesOn ==
  ASSUME LatchInv, NEW h \in Holders, NEW place \in Phases,
         phase' = [phase EXCEPT ![h] = place],
         phase[h] \in HoldsLatch <=> place \in HoldsLatch,
         UNCHANGED latch
  PROVE  LatchInv'
<1>1. phase' \in [Holders -> Phases]
  BY DEF LatchInv
<1>2. Holding' = Holding
  BY DEF LatchInv, Holding, HoldsLatch
<1> QED
  BY <1>1, <1>2 DEF LatchInv, OneHolder

\* Whoever takes the latch finds no check that holds it.
LEMMA Takes ==
  ASSUME LatchInv, ~latch, NEW h \in Holders, NEW place \in HoldsLatch,
         phase' = [phase EXCEPT ![h] = place],
         latch' = TRUE
  PROVE  LatchInv'
<1>1. phase' \in [Holders -> Phases]
  BY DEF LatchInv, HoldsLatch, Phases, Finishing
<1>2. Holding = {}
  BY DEF LatchInv, OneHolder
<1>3. Holding' = {h}
  BY <1>2 DEF LatchInv, Holding, HoldsLatch
<1> QED
  BY <1>1, <1>3 DEF LatchInv, OneHolder

\* Whoever releases it was the one to hold it.
LEMMA Releases ==
  ASSUME LatchInv, NEW h \in Holders, phase[h] \in HoldsLatch,
         phase' = [phase EXCEPT ![h] = "wake"],
         latch' = FALSE
  PROVE  LatchInv'
<1>1. phase' \in [Holders -> Phases]
  BY DEF LatchInv, Phases, Finishing
<1>2. Holding = {h}
  BY DEF LatchInv, OneHolder, Holding, HoldsLatch
<1>3. Holding' = {}
  BY <1>2 DEF LatchInv, Holding, HoldsLatch, Deciding
<1> QED
  BY <1>1, <1>3 DEF LatchInv, OneHolder

\* A request touches the latch only where the observer starts a check.
LEMMA RequestKeeps ==
  ASSUME LatchInv, NEW r \in Requests, Arrive(r) \/ Answer(r) \/ Wait(r) \/ Deadline(r)
  PROVE  LatchInv'
<1> r \in Holders
  BY DEF Holders
<1>1. CASE Observe(r)
  <2>1. PICK place \in {"cool", "verify"} : phase' = [phase EXCEPT ![r] = place]
    BY <1>1 DEF Observe, Reach
  <2>2. ~latch /\ latch' = TRUE
    BY <1>1 DEF Observe
  <2>3. place \in HoldsLatch
    BY DEF HoldsLatch, Deciding
  <2> QED
    BY <2>1, <2>2, <2>3, Takes
<1>2. CASE ~Observe(r)
  <2>1. UNCHANGED <<phase, latch>>
    BY <1>2 DEF Arrive, Answer, Accept, Refuse, Wait, Look, Ask, Swap, Counted, Sleep,
                Changed, CheckOver, Late, Deadline, guards, checks
  <2> QED
    BY <2>1, Still
<1> QED
  BY <1>1, <1>2

LEMMA CheckKeeps ==
  ASSUME LatchInv, NEW h \in Holders, Run(h)
  PROVE  LatchInv'
<1>1. CASE Recovered(h) \/ Dead(h)
  <2>1. phase[h] = "verify" /\ phase' = [phase EXCEPT ![h] = "push"] /\ UNCHANGED latch
    BY <1>1 DEF Recovered, Dead, Decide
  <2>2. "push" \in Phases /\ "push" \in HoldsLatch /\ "verify" \in HoldsLatch
    BY DEF Phases, HoldsLatch, Deciding
  <2> QED
    BY <2>1, <2>2, GoesOn
<1>2. CASE Unchanged(h) \/ Pushes(h)
  <2>1. phase[h] \in Deciding /\ phase' = [phase EXCEPT ![h] = "cool"] /\ UNCHANGED latch
    BY <1>2 DEF Unchanged, Pushes, Decided, Deciding
  <2>2. "cool" \in Phases /\ "cool" \in HoldsLatch /\ phase[h] \in HoldsLatch
    BY <2>1 DEF Phases, HoldsLatch, Finishing
  <2> QED
    BY <2>1, <2>2, GoesOn
<1>3. CASE Cool(h)
  <2>1. phase[h] = "cool" /\ phase' = [phase EXCEPT ![h] = "unlatch"] /\ UNCHANGED latch
    BY <1>3 DEF Cool, Reach
  <2>2. "unlatch" \in Phases /\ "unlatch" \in HoldsLatch /\ "cool" \in HoldsLatch
    BY DEF Phases, HoldsLatch, Finishing
  <2> QED
    BY <2>1, <2>2, GoesOn
<1>4. CASE Unlatch(h)
  <2>1. phase[h] = "unlatch" /\ phase' = [phase EXCEPT ![h] = "wake"] /\ latch' = FALSE
    BY <1>4 DEF Unlatch, Reach
  <2>2. "unlatch" \in HoldsLatch
    BY DEF HoldsLatch
  <2> QED
    BY <2>1, <2>2, Releases
<1>5. CASE WakeWaiters(h)
  <2>1. phase[h] = "wake" /\ phase' = [phase EXCEPT ![h] = "idle"] /\ UNCHANGED latch
    BY <1>5 DEF WakeWaiters, Reach
  <2>2. "idle" \in Phases /\ "idle" \notin HoldsLatch /\ "wake" \notin HoldsLatch
    BY DEF Phases, HoldsLatch, Deciding
  <2> QED
    BY <2>1, <2>2, GoesOn
<1> QED
  BY <1>1, <1>2, <1>3, <1>4, <1>5 DEF Run

LEMMA SweepKeeps ==
  ASSUME LatchInv, NEW h \in Sweeps, Sweep(h)
  PROVE  LatchInv'
<1>1. h \in Holders /\ "verify" \in HoldsLatch
  BY DEF Holders, HoldsLatch, Deciding
<1>2. ~latch /\ latch' = TRUE /\ phase' = [phase EXCEPT ![h] = "verify"]
  BY DEF Sweep, Reach
<1> QED
  BY <1>1, <1>2, Takes

LEMMA StepKeeps == LatchInv /\ [RecoveryNext]_recoveryVars => LatchInv'
<1> SUFFICES ASSUME LatchInv, [RecoveryNext]_recoveryVars PROVE LatchInv'
  OBVIOUS
<1>1. CASE LogIn \/ LogOut \/ Thaw \/ \E t \in Bearers : Tick(t)
  <2>1. UNCHANGED <<phase, latch>>
    BY <1>1 DEF LogIn, LogOut, Outdated, Thaw, Tick, guards, checks
  <2> QED
    BY <2>1, Still
<1>2. CASE \E r \in Requests : Arrive(r) \/ Answer(r) \/ Wait(r) \/ Deadline(r)
  BY <1>2, RequestKeeps
<1>3. CASE \E h \in Holders : Run(h)
  BY <1>3, CheckKeeps
<1>4. CASE \E h \in Sweeps : Sweep(h)
  BY <1>4, SweepKeeps
<1>5. CASE UNCHANGED recoveryVars
  BY <1>5, Still DEF recoveryVars, guards, checks
<1> QED
  BY <1>1, <1>2, <1>3, <1>4, <1>5 DEF RecoveryNext

\* One check at a time, and a latch that its check gives back however it ends:
\* try_begin_gate_auth_check, notify_gate_auth_observer and the drop of
\* GateAuthCheck.
THEOREM LatchKept == RecoverySpec => []OneHolder
<1>1. LatchInv => OneHolder
  BY DEF LatchInv
<1> QED
  BY InitHolds, StepKeeps, <1>1, PTL DEF RecoverySpec

-----------------------------------------------------------------------------
(* The requests.  The check a request has joined is still deciding, and    *)
(* nobody else is about to wake it.                                        *)

Places == Waiting \cup {"idle", "send", "count", "late", "refusal"}
Asks   == [at : Places, sent : Bearers, again : BOOLEAN, unseen : BOOLEAN,
           woken : BOOLEAN, ended : BOOLEAN, asked : BOOLEAN, joined : Holders \cup {Nil}]

Sound(q, p) ==
    /\ q.joined # Nil =>
         /\ q.at \in {"look", "told", "wait"} /\ q.asked /\ ~q.woken
         /\ p[q.joined] \in Deciding
         /\ \A h \in Holders : p[h] # "wake"
    /\ q.ended => q.woken
    /\ q.at \in {"ask", "swap"} => q.asked \/ q.again
    /\ q.at = "send" => ~q.asked
    /\ q.at \in {"told", "wait"} \/ (q.at = "look" /\ q.asked) => q.woken \/ \E h \in Holders : p[h] # "idle"

Judged == \A h \in Holders : phase[h] = "push" => verdict[h] \in Bearers

RecoveryInv == RecoveryTypeOK /\ LatchInv /\ Judged /\ \A r \in Requests : Sound(req[r], phase)

LEMMA InitRecoveryInv == RecoveryInit => RecoveryInv
<1> SUFFICES ASSUME RecoveryInit PROVE RecoveryInv
  OBVIOUS
<1>1. 0 \in Bearers /\ 1 \in Bearers
  BY RecoveryAssumption DEF Bearers
<1>2. Fresh \in Asks
  BY <1>1 DEF Fresh, Asks, Places
<1>3. RecoveryTypeOK
  BY <1>1, <1>2 DEF RecoveryInit, RecoveryTypeOK, Asks, Places
<1>4. Judged /\ \A r \in Requests : Sound(req[r], phase)
  BY DEF RecoveryInit, Judged, Sound, Fresh
<1> QED
  BY <1>3, <1>4, InitHolds DEF RecoveryInv

\* A request that has let go of everything.
Clean(q) == q.joined = Nil /\ ~q.ended /\ ~q.asked /\ q.at \in {"idle", "send", "late", "refusal"}

LEMMA CleanSound == ASSUME NEW q \in Asks, NEW p, Clean(q) PROVE Sound(q, p)
  BY DEF Clean, Sound

\* What a request becomes.
LEMMA Becoming ==
  ASSUME RecoveryTypeOK, NEW r \in Requests, NEW q \in Asks, Become(r, q)
  PROVE  /\ req' \in [Requests -> Asks]
         /\ req'[r] = q
         /\ \A s \in Requests \ {r} : req'[s] = req[s]
  BY DEF RecoveryTypeOK, Asks, Places, Become

LEMMA Endings ==
  ASSUME NEW r \in Requests, NEW t \in Bearers, NEW again \in BOOLEAN,
         NEW place \in {"idle", "send", "late", "refusal"}
  PROVE  LET q == [Fresh EXCEPT !.at = place]
             s == [Fresh EXCEPT !.at = "send", !.sent = t, !.again = again]
         IN  /\ q \in Asks /\ Clean(q) /\ q.at = place
             /\ s \in Asks /\ Clean(s) /\ s.at = "send" /\ s.sent = t
<1>1. 0 \in Bearers
  BY RecoveryAssumption DEF Bearers
<1> QED
  BY <1>1 DEF Asks, Places, Fresh, Clean

\* It gives up by handing the refusal back, by the answer of a signed-out
\* user, or by going on under what the watch holds.
LEMMA GivingUp ==
  ASSUME RecoveryTypeOK, NEW r \in Requests, GiveUp(r)
  PROVE  \E q \in Asks : Become(r, q) /\ Clean(q)
<1>1. watch \in Bearers
  BY DEF RecoveryTypeOK
<1> QED
  BY <1>1, Endings DEF GiveUp, End, Send

\* A check taken up or carried on leaves the requests sound.
LEMMA Onward ==
  ASSUME RecoveryTypeOK, NEW h \in Holders, NEW place \in Phases \ {"idle", "wake"},
         phase' = [phase EXCEPT ![h] = place],
         phase[h] \in Deciding => place \in Deciding,
         NEW q \in Asks, Sound(q, phase)
  PROVE  Sound(q, phase')
<1>1. phase \in [Holders -> Phases]
  BY DEF RecoveryTypeOK, Phases
<1>2. ASSUME q.joined # Nil
      PROVE  phase'[q.joined] \in Deciding /\ \A k \in Holders : phase'[k] # "wake"
  BY <1>1, <1>2 DEF Sound, Asks
<1>3. (\E k \in Holders : phase[k] # "idle") => \E k \in Holders : phase'[k] # "idle"
  BY <1>1
<1> QED
  BY <1>2, <1>3 DEF Sound

\* A request that is told to wait while a check runs.
LEMMA BeingTold ==
  ASSUME RecoveryTypeOK, NEW r \in Requests, Sound(req[r], phase), req[r].at = "swap",
         NEW p \in [Holders -> Phases], NEW k \in Holders, p[k] # "idle", Told(r, p)
  PROVE  \E q \in Asks : Become(r, q) /\ Sound(q, p)
<1> DEFINE j == Joined(r, p)
           q == [req[r] EXCEPT !.at = "told", !.joined = j]
<1>1. req[r] \in Asks /\ req[r].joined = Nil /\ (req[r].asked \/ req[r].again) /\ (req[r].ended => req[r].woken)
  BY DEF RecoveryTypeOK, Asks, Places, Sound
<1>2. j = Nil \/ (/\ j \in Holders /\ p[j] \in Deciding /\ ~req[r].woken
                  /\ \A h \in Holders : p[h] # "wake")
  BY DEF Joined, InFlight
<1>3. CASE req[r].again
  <2> DEFINE e == [Fresh EXCEPT !.at = "refusal"]
  <2>1. 0 \in Bearers
    BY RecoveryAssumption DEF Bearers
  <2>2. e \in Asks /\ Clean(e)
    BY <2>1, Endings
  <2>3. Sound(e, p)
    BY <2>2, CleanSound
  <2>4. Become(r, e)
    BY <1>3 DEF Told, End
  <2> QED
    BY <2>2, <2>3, <2>4
<1>4. CASE ~req[r].again
  <2>1. q \in Asks /\ q.at = "told" /\ q.joined = j /\ q.woken = req[r].woken /\ q.ended = req[r].ended
        /\ q.asked = req[r].asked
    BY <1>1, <1>2 DEF Asks, Places, Waiting
  <2>2. Become(r, q)
    BY <1>4 DEF Told
  <2>3. Sound(q, p)
    <3> HIDE DEF q, j
    <3> QED
      BY <1>1, <1>2, <1>4, <2>1 DEF Sound
  <2> QED
    BY <2>1, <2>2, <2>3
<1> QED
  BY <1>3, <1>4

\* A step of one request: it stays sound, and so do the others.
LEMMA RequestSound ==
  ASSUME RecoveryInv, NEW r \in Requests, Arrive(r) \/ Answer(r) \/ Wait(r) \/ Deadline(r)
  PROVE  \E q \in Asks : Become(r, q) /\ Sound(q, phase')
<1>1. /\ RecoveryTypeOK /\ Sound(req[r], phase) /\ req[r] \in Asks /\ watch \in Bearers
      /\ phase \in [Holders -> Phases] /\ 0 \in Bearers /\ r \in Holders
  BY RecoveryAssumption DEF RecoveryInv, RecoveryTypeOK, Asks, Places, Phases, Bearers, Holders
<1>2. ASSUME NEW q \in Asks, Become(r, q), Clean(q)
      PROVE  \E c \in Asks : Become(r, c) /\ Sound(c, phase')
  BY <1>2, CleanSound
<1>3. ASSUME GiveUp(r)
      PROVE  \E c \in Asks : Become(r, c) /\ Sound(c, phase')
  BY <1>1, <1>2, <1>3, GivingUp
<1>4. ASSUME NEW place \in {"idle", "late", "refusal"}, End(r, place)
      PROVE  \E c \in Asks : Become(r, c) /\ Sound(c, phase')
  BY <1>1, <1>2, <1>4, Endings DEF End
<1>5. ASSUME NEW again \in BOOLEAN, Send(r, watch, again)
      PROVE  \E c \in Asks : Become(r, c) /\ Sound(c, phase')
  BY <1>1, <1>2, <1>5, Endings DEF Send
<1>6. CASE Arrive(r)
  <2>1. CASE watch = 0
    BY <1>4, <1>6, <2>1 DEF Arrive
  <2>2. CASE watch # 0
    <3>1. PICK place \in {"look", "send"} : Become(r, [Fresh EXCEPT !.sent = watch, !.at = place])
      BY <1>6, <2>2 DEF Arrive
    <3> DEFINE q == [Fresh EXCEPT !.sent = watch, !.at = place]
    <3>2. q \in Asks /\ Sound(q, phase')
      BY <1>1 DEF Asks, Places, Waiting, Fresh, Sound
    <3> QED
      BY <3>1, <3>2
  <2> QED
    BY <2>1, <2>2
<1>7. CASE Answer(r)
  <2>1. CASE Accept(r) \/ (r \notin Streamed /\ req[r].again)
    BY <1>4, <1>7, <2>1 DEF Answer, Accept, Refuse
  <2>2. CASE r \in Streamed /\ Refuse(r)
    <3> DEFINE q == [req[r] EXCEPT !.at = "ask", !.again = TRUE]
    <3>1. q \in Asks /\ q.at = "ask" /\ q.again /\ q.joined = Nil /\ q.ended = req[r].ended /\ q.woken = req[r].woken
      BY <1>1, <2>2 DEF Asks, Places, Waiting, Sound, Refuse
    <3>2. Sound(q, phase')
      <4> HIDE DEF q
      <4> QED
        BY <1>1, <3>1 DEF Sound
    <3> QED
      BY <2>2, <3>1, <3>2 DEF Refuse
  <2>3. CASE r \notin Streamed /\ ~req[r].again /\ Refuse(r)
    <3> DEFINE q == [req[r] EXCEPT !.at = "look"]
    <3>1. q \in Asks /\ q.at = "look" /\ ~q.asked /\ q.joined = Nil /\ q.ended = req[r].ended
        /\ q.woken = req[r].woken
      BY <1>1, <2>3 DEF Asks, Places, Waiting, Sound, Refuse
    <3>2. Sound(q, phase')
      <4> HIDE DEF q
      <4> QED
        BY <1>1, <3>1 DEF Sound
    <3> QED
      BY <2>3, <3>1, <3>2 DEF Refuse, Goto
  <2> QED
    BY <1>7, <2>1, <2>2, <2>3 DEF Answer
<1>8. CASE Look(r)
  <2>1. CASE watch = 0 \/ (watch = req[r].sent /\ req[r].ended) \/ watch # req[r].sent
    <3>1. GiveUp(r) \/ Send(r, watch, r \in Relayed)
      BY <1>8, <2>1 DEF Look
    <3>2. (r \in Relayed) \in BOOLEAN
      OBVIOUS
    <3> QED
      BY <1>3, <1>5, <3>1, <3>2
  <2>2. CASE watch # 0 /\ watch = req[r].sent /\ ~req[r].ended
    <3>1. PICK place \in {"wait", "ask"} :
            /\ Become(r, [req[r] EXCEPT !.unseen = FALSE, !.asked = TRUE, !.at = place])
            /\ place = "ask" <=> ~req[r].asked
      BY <1>8, <2>2 DEF Look
    <3> DEFINE q == [req[r] EXCEPT !.unseen = FALSE, !.asked = TRUE, !.at = place]
    <3>2. /\ q \in Asks /\ q.at = place /\ q.asked /\ q.joined = req[r].joined /\ q.ended = req[r].ended
          /\ q.woken = req[r].woken
      BY <1>1 DEF Asks, Places, Waiting
    <3>3. phase' = phase /\ req[r].at = "look"
      BY <1>8 DEF Look, guards, checks
    <3>4. place = "wait" => req[r].woken \/ \E h \in Holders : phase[h] # "idle"
      BY <1>1, <3>1, <3>3 DEF Sound
    <3>5. Sound(q, phase')
      <4> HIDE DEF q
      <4> QED
        BY <1>1, <3>1, <3>2, <3>3, <3>4 DEF Sound
    <3> QED
      BY <3>1, <3>2, <3>5
  <2> QED
    BY <2>1, <2>2
<1>9. CASE Ask(r)
  <2>1. CASE cooling
    BY <1>3, <1>9, <2>1 DEF Ask
  <2>2. CASE ~cooling
    <3> DEFINE q == [req[r] EXCEPT !.at = "swap"]
    <3>1. /\ q \in Asks /\ q.at = "swap" /\ q.joined = Nil /\ q.asked = req[r].asked /\ q.again = req[r].again
          /\ q.ended = req[r].ended /\ q.woken = req[r].woken /\ req[r].at = "ask"
      BY <1>1, <1>9 DEF Asks, Places, Waiting, Sound, Ask
    <3>2. Sound(q, phase')
      <4> HIDE DEF q
      <4> QED
        BY <1>1, <3>1 DEF Sound
    <3> QED
      BY <1>9, <2>2, <3>1, <3>2 DEF Ask, Goto
  <2> QED
    BY <2>1, <2>2
<1>10. CASE Swap(r)
  <2>1. PICK k \in Holders : phase[k] # "idle"
    BY <1>10, <1>1 DEF RecoveryInv, LatchInv, OneHolder, Holding, Deciding, Swap
  <2> QED
    BY <1>1, <1>10, <2>1, BeingTold DEF Swap, guards, checks
<1>11. CASE Observe(r)
  <2>1. PICK place \in {"cool", "verify"} : phase' = [phase EXCEPT ![r] = place]
    BY <1>11 DEF Observe, Reach
  <2>2. phase' \in [Holders -> Phases] /\ phase'[r] # "idle"
    BY <1>1, <2>1 DEF Phases, Deciding, Finishing
  <2>3. CASE linux
    <3> DEFINE q == [req[r] EXCEPT !.at = "count"]
    <3>1. /\ q \in Asks /\ q.at = "count" /\ q.joined = Nil /\ q.ended = req[r].ended /\ q.woken = req[r].woken
      BY <1>1, <1>11 DEF Asks, Places, Waiting, Sound, Observe
    <3>2. Sound(q, phase')
      <4> HIDE DEF q
      <4> QED
        BY <1>1, <3>1 DEF Sound
    <3> QED
      BY <1>11, <2>3, <3>1, <3>2 DEF Observe, Goto
  <2>4. CASE ~linux
    <3>1. Told(r, phase') /\ req[r].at = "swap"
      BY <1>11, <2>4 DEF Observe
    <3> QED
      BY <1>1, <2>2, <3>1, BeingTold
  <2> QED
    BY <2>3, <2>4
<1>12. CASE Counted(r) \/ Late(r)
  BY <1>3, <1>12 DEF Counted, Late
<1>13. CASE Sleep(r)
  <2> DEFINE q == [req[r] EXCEPT !.at = "wait"]
  <2>1. /\ q \in Asks /\ q.at = "wait" /\ q.asked = req[r].asked /\ q.joined = req[r].joined
        /\ q.ended = req[r].ended /\ q.woken = req[r].woken /\ req[r].at = "told"
    BY <1>1, <1>13 DEF Asks, Places, Waiting, Sleep
  <2>2. Sound(q, phase') /\ phase' = phase
    <3> HIDE DEF q
    <3>1. phase' = phase
      BY <1>13 DEF Sleep, guards, checks
    <3> QED
      BY <1>1, <2>1, <3>1 DEF Sound
  <2> QED
    BY <1>13, <2>1, <2>2 DEF Sleep, Goto
<1>14. CASE Changed(r)
  <2> DEFINE q == [req[r] EXCEPT !.at = "look"]
  <2>1. /\ q \in Asks /\ q.at = "look" /\ q.asked = req[r].asked /\ q.joined = req[r].joined
        /\ q.ended = req[r].ended /\ q.woken = req[r].woken /\ req[r].at = "wait"
    BY <1>1, <1>14 DEF Asks, Places, Waiting, Changed
  <2>2. Sound(q, phase') /\ phase' = phase
    <3> HIDE DEF q
    <3>1. phase' = phase
      BY <1>14 DEF Changed, guards, checks
    <3> QED
      BY <1>1, <2>1, <3>1 DEF Sound
  <2> QED
    BY <1>14, <2>1, <2>2 DEF Changed, Goto
<1>15. CASE CheckOver(r)
  <2> DEFINE q == [req[r] EXCEPT !.at = "look", !.ended = TRUE]
  <2>1. /\ q \in Asks /\ q.at = "look" /\ q.asked = req[r].asked /\ q.joined = req[r].joined
        /\ q.ended /\ q.woken /\ req[r].woken
    BY <1>1, <1>15 DEF Asks, Places, Waiting, CheckOver
  <2>2. Sound(q, phase')
    <3> HIDE DEF q
    <3> QED
      BY <1>1, <2>1 DEF Sound
  <2> QED
    BY <1>15, <2>1, <2>2 DEF CheckOver
<1>16. CASE Deadline(r)
  <2>1. PICK place \in {"idle", "late"} : End(r, place)
    BY <1>16 DEF Deadline
  <2> QED
    BY <1>4, <2>1
<1> QED
  BY <1>6, <1>7, <1>8, <1>9, <1>10, <1>11, <1>12, <1>13, <1>14, <1>15, <1>16 DEF Wait

\* What its step leaves of the rest.
LEMMA RequestKeepsInv ==
  ASSUME RecoveryInv, NEW r \in Requests, Arrive(r) \/ Answer(r) \/ Wait(r) \/ Deadline(r)
  PROVE  RecoveryInv'
<1>1. PICK q \in Asks : Become(r, q) /\ Sound(q, phase')
  BY RequestSound
<1>2. RecoveryTypeOK /\ LatchInv /\ Judged /\ \A s \in Requests : Sound(req[s], phase) /\ req[s] \in Asks
  BY DEF RecoveryInv, RecoveryTypeOK, Asks, Places
<1>3. req' \in [Requests -> Asks] /\ req'[r] = q /\ \A s \in Requests \ {r} : req'[s] = req[s]
  BY <1>1, <1>2, Becoming
<1>4. LatchInv'
  BY <1>2, RequestKeeps
<1>5. /\ UNCHANGED <<linux, watch, session, cooling, verdict, stale>>
      /\ refused' \in Bearers
  BY <1>2 DEF Arrive, Answer, Accept, Refuse, Wait, Look, Ask, Swap, Observe, Reach, Counted, Sleep,
              Changed, CheckOver, Late, Deadline, guards, checks, session, RecoveryTypeOK
<1>6. RecoveryTypeOK'
  BY <1>2, <1>3, <1>4, <1>5 DEF RecoveryTypeOK, LatchInv, Phases, Asks, Places, session
<1>7. CASE ~Observe(r)
  <2>1. phase' = phase
    BY <1>7 DEF Arrive, Answer, Accept, Refuse, Wait, Look, Ask, Swap, Counted, Sleep,
                Changed, CheckOver, Late, Deadline, guards, checks
  <2>2. \A s \in Requests : Sound(req'[s], phase')
    BY <1>1, <1>2, <1>3, <2>1
  <2> QED
    BY <1>2, <1>4, <1>5, <1>6, <2>1, <2>2 DEF RecoveryInv, Judged
<1>8. CASE Observe(r)
  <2>1. PICK place \in {"cool", "verify"} : phase' = [phase EXCEPT ![r] = place]
    BY <1>8 DEF Observe, Reach
  <2>2. r \in Holders /\ phase[r] = "idle" /\ place \in Phases \ {"idle", "wake"}
    BY <1>8 DEF Holders, Observe, Phases, Deciding, Finishing
  <2>3. phase[r] \notin Deciding
    BY <2>2 DEF Deciding
  <2>4. \A s \in Requests : Sound(req'[s], phase')
    BY <1>1, <1>2, <1>3, <2>1, <2>2, <2>3, Onward
  <2>5. Judged'
    BY <1>2, <1>5, <2>1 DEF Judged, RecoveryTypeOK
  <2> QED
    BY <1>4, <1>6, <2>4, <2>5 DEF RecoveryInv
<1> QED
  BY <1>7, <1>8

\* A push, a wake-up and the end of a check, as the requests see them.
LEMMA Marked ==
  ASSUME RecoveryTypeOK, NEW q \in Asks
  PROVE  /\ [q EXCEPT !.unseen = @ \/ q.at \in Waiting] \in Asks
         /\ [q EXCEPT !.woken = @ \/ q.at \in Waiting] \in Asks
         /\ \A h \in Holders : [q EXCEPT !.joined = IF @ = h THEN Nil ELSE @] \in Asks
  BY DEF Asks

LEMMA PushSound ==
  ASSUME RecoveryTypeOK, \A r \in Requests : Sound(req[r], phase)
  PROVE  /\ Notified(req) \in [Requests -> Asks]
         /\ \A r \in Requests : Sound(Notified(req)[r], phase) /\ Notified(req)[r].joined = req[r].joined
<1>1. req \in [Requests -> Asks]
  BY DEF RecoveryTypeOK, Asks, Places
<1>2. SUFFICES ASSUME NEW r \in Requests
               PROVE  /\ Notified(req)[r] \in Asks
                      /\ Sound(Notified(req)[r], phase) /\ Notified(req)[r].joined = req[r].joined
  BY DEF Notified
<1> DEFINE q == [req[r] EXCEPT !.unseen = @ \/ req[r].at \in Waiting]
<1>3. Notified(req)[r] = q /\ q \in Asks
  BY <1>1, Marked DEF Notified
<1>4. /\ q.at = req[r].at /\ q.again = req[r].again /\ q.woken = req[r].woken /\ q.ended = req[r].ended
      /\ q.asked = req[r].asked /\ q.joined = req[r].joined
  BY <1>1 DEF Asks
<1>5. Sound(req[r], phase)
  OBVIOUS
<1> HIDE DEF q
<1> QED
  BY <1>3, <1>4, <1>5 DEF Sound

\* The end of the check of h frees who joined it.
LEMMA EndSound ==
  ASSUME RecoveryTypeOK, NEW h \in Holders, phase[h] \in Deciding, phase' = [phase EXCEPT ![h] = "cool"],
         NEW f \in [Requests -> Asks], \A r \in Requests : Sound(f[r], phase)
  PROVE  /\ Settled(h, f) \in [Requests -> Asks]
         /\ \A r \in Requests : Sound(Settled(h, f)[r], phase')
<1>1. phase \in [Holders -> Phases] /\ Nil \notin Holders
  BY RecoveryAssumption DEF RecoveryTypeOK, Phases
<1>2. SUFFICES ASSUME NEW r \in Requests
               PROVE  Settled(h, f)[r] \in Asks /\ Sound(Settled(h, f)[r], phase')
  BY DEF Settled
<1> DEFINE q == [f[r] EXCEPT !.joined = IF @ = h THEN Nil ELSE @]
<1>3. Settled(h, f)[r] = q /\ q \in Asks /\ f[r] \in Asks /\ Sound(f[r], phase)
  BY Marked DEF Settled
<1>4. /\ q.at = f[r].at /\ q.again = f[r].again /\ q.woken = f[r].woken /\ q.ended = f[r].ended
      /\ q.asked = f[r].asked /\ q.joined = IF f[r].joined = h THEN Nil ELSE f[r].joined
  BY <1>3 DEF Asks
<1>5. phase'[h] = "cool" /\ \A k \in Holders \ {h} : phase'[k] = phase[k]
  BY <1>1
<1>6. ASSUME q.joined # Nil
      PROVE  /\ q.joined = f[r].joined /\ phase'[q.joined] \in Deciding
             /\ \A k \in Holders : phase'[k] # "wake"
  BY <1>3, <1>4, <1>5, <1>6 DEF Sound, Asks
<1> HIDE DEF q
<1> QED
  BY <1>3, <1>4, <1>5, <1>6 DEF Sound

\* What happens to the requests without one of them taking part.
LEMMA CheckKeepsInv ==
  ASSUME RecoveryInv, NEW h \in Holders, Run(h)
  PROVE  RecoveryInv'
<1>1. /\ RecoveryTypeOK /\ LatchInv /\ Judged /\ phase \in [Holders -> Phases] /\ Nil \notin Holders
      /\ req \in [Requests -> Asks] /\ \A r \in Requests : Sound(req[r], phase)
  BY RecoveryAssumption DEF RecoveryInv, RecoveryTypeOK, Phases, Asks, Places
<1>2. LatchInv'
  BY <1>1, CheckKeeps
<1>3. CASE Recovered(h) \/ Dead(h)
  <2>1. PICK t \in Bearers : Decide(h, t)
    BY <1>1, <1>3, RecoveryAssumption DEF Recovered, Dead, RecoveryTypeOK, Bearers
  <2>2. phase[h] \in Deciding /\ phase' = [phase EXCEPT ![h] = "push"] /\ req' = req
    BY <1>3, <2>1 DEF Recovered, Dead, Decide, Deciding
  <2>3. "push" \in Phases \ {"idle", "wake"} /\ "push" \in Deciding
    BY DEF Phases, Deciding
  <2>4. \A r \in Requests : Sound(req'[r], phase')
    BY <1>1, <2>2, <2>3, Onward
  <2>5. Judged'
    BY <1>1, <2>1 DEF Judged, Decide, RecoveryTypeOK
  <2>6. stored' \in Bearers /\ minted' \in Bearers
    BY <1>1, <1>3, RecoveryAssumption DEF Recovered, Dead, RecoveryTypeOK, Bearers
  <2>7. RecoveryTypeOK'
    BY <1>1, <1>2, <2>1, <2>6 DEF RecoveryTypeOK, LatchInv, Phases, Decide
  <2> QED
    BY <1>2, <2>4, <2>5, <2>7 DEF RecoveryInv
<1>4. CASE Unchanged(h) \/ Pushes(h)
  <2>1. phase[h] \in Deciding /\ Decided(h) /\ phase' = [phase EXCEPT ![h] = "cool"]
    BY <1>4 DEF Unchanged, Pushes, Decided, Deciding
  <2>2. PICK f \in [Requests -> Asks] : req' = Settled(h, f) /\ \A r \in Requests : Sound(f[r], phase)
    BY <1>1, <1>4, PushSound DEF Unchanged, Pushes
  <2>3. req' \in [Requests -> Asks] /\ \A r \in Requests : Sound(req'[r], phase')
    BY <1>1, <2>1, <2>2, EndSound
  <2>4. watch' \in Bearers /\ UNCHANGED <<linux, refused, stored, minted, latch, cooling>>
    BY <1>1, <1>4 DEF Unchanged, Pushes, Judged, RecoveryTypeOK, session
  <2>5. Judged'
    BY <1>1, <2>1 DEF Judged, Decided, RecoveryTypeOK
  <2>6. RecoveryTypeOK'
    BY <1>1, <1>2, <2>1, <2>3, <2>4 DEF RecoveryTypeOK, LatchInv, Phases, Decided, Asks, Places
  <2> QED
    BY <1>2, <2>3, <2>5, <2>6 DEF RecoveryInv
<1>5. CASE Cool(h)
  <2>1. /\ phase[h] \notin Deciding /\ phase' = [phase EXCEPT ![h] = "unlatch"]
        /\ cooling' = TRUE /\ UNCHANGED <<linux, watch, refused, stored, minted, latch, req, verdict, stale>>
    BY <1>5 DEF Cool, Reach, Deciding, session
  <2>2. "unlatch" \in Phases \ {"idle", "wake"}
    BY DEF Phases, Finishing
  <2>3. \A r \in Requests : Sound(req'[r], phase')
    BY <1>1, <2>1, <2>2, Onward
  <2>4. Judged'
    BY <1>1, <2>1 DEF Judged, RecoveryTypeOK
  <2>5. RecoveryTypeOK'
    BY <1>1, <1>2, <2>1 DEF RecoveryTypeOK, LatchInv, Phases
  <2> QED
    BY <1>2, <2>3, <2>4, <2>5 DEF RecoveryInv
<1>6. CASE Unlatch(h)
  <2>1. /\ phase[h] = "unlatch" /\ phase' = [phase EXCEPT ![h] = "wake"]
        /\ UNCHANGED <<linux, watch, refused, stored, minted, cooling, req, verdict, stale>>
    BY <1>6 DEF Unlatch, Reach, session
  <2>2. \A k \in Holders : phase[k] \notin Deciding
    BY <1>1, <2>1 DEF LatchInv, OneHolder, Holding, Deciding
  <2>3. \A r \in Requests : req[r].joined = Nil
    BY <1>1, <2>2 DEF Sound, Asks
  <2>4. phase'[h] # "idle"
    BY <1>1, <2>1
  <2>5. \A r \in Requests : Sound(req'[r], phase')
    BY <1>1, <2>1, <2>3, <2>4 DEF Sound
  <2>6. Judged'
    BY <1>1, <2>1 DEF Judged, RecoveryTypeOK
  <2>7. RecoveryTypeOK'
    BY <1>1, <1>2, <2>1 DEF RecoveryTypeOK, LatchInv, Phases
  <2> QED
    BY <1>2, <2>5, <2>6, <2>7 DEF RecoveryInv
<1>7. CASE WakeWaiters(h)
  <2>1. /\ phase[h] = "wake" /\ phase' = [phase EXCEPT ![h] = "idle"]
        /\ UNCHANGED <<linux, watch, refused, stored, minted, latch, cooling, verdict, stale>>
        /\ req' = [r \in Requests |-> [req[r] EXCEPT !.woken = @ \/ req[r].at \in Waiting]]
    BY <1>7 DEF WakeWaiters, Reach, session
  <2>2. ASSUME NEW r \in Requests
        PROVE  req'[r] \in Asks /\ Sound(req'[r], phase')
    <3> DEFINE q == [req[r] EXCEPT !.woken = @ \/ req[r].at \in Waiting]
    <3>1. req'[r] = q /\ q \in Asks
      BY <1>1, <2>1, Marked
    <3>2. /\ q.at = req[r].at /\ q.again = req[r].again /\ q.ended = req[r].ended
          /\ q.asked = req[r].asked /\ q.joined = req[r].joined
          /\ q.woken <=> req[r].woken \/ req[r].at \in Waiting
      BY <1>1 DEF Asks
    <3>3. Sound(req[r], phase) /\ req[r].joined = Nil
      BY <1>1, <2>1 DEF Sound
    <3> HIDE DEF q
    <3>4. {"look", "told", "wait"} \subseteq Waiting
      BY DEF Waiting
    <3> QED
      BY <3>1, <3>2, <3>3, <3>4 DEF Sound
  <2>3. req' \in [Requests -> Asks]
    BY <2>1, <2>2
  <2>4. Judged'
    BY <1>1, <2>1 DEF Judged, RecoveryTypeOK
  <2>5. RecoveryTypeOK'
    BY <1>1, <1>2, <2>1, <2>3 DEF RecoveryTypeOK, LatchInv, Phases, Asks, Places
  <2> QED
    BY <1>2, <2>2, <2>4, <2>5 DEF RecoveryInv
<1> QED
  BY <1>3, <1>4, <1>5, <1>6, <1>7 DEF Run

LEMMA NextKeepsRecoveryInv == RecoveryInv /\ [RecoveryNext]_recoveryVars => RecoveryInv'
<1> SUFFICES ASSUME RecoveryInv, [RecoveryNext]_recoveryVars PROVE RecoveryInv'
  OBVIOUS
<1>1. /\ RecoveryTypeOK /\ LatchInv /\ Judged /\ phase \in [Holders -> Phases]
      /\ \A r \in Requests : Sound(req[r], phase)
  BY DEF RecoveryInv, RecoveryTypeOK, Phases
<1>2. LatchInv'
  BY <1>1, StepKeeps
<1>3. ASSUME NEW t \in Bearers, Push(t), stored' \in Bearers, minted' \in Bearers,
             phase' = phase, verdict' = verdict, stale' \in [Holders -> BOOLEAN],
             UNCHANGED <<linux, refused, latch, cooling>>
      PROVE  RecoveryInv'
  <2>1. req' \in [Requests -> Asks] /\ \A r \in Requests : Sound(req'[r], phase')
    BY <1>1, <1>3, PushSound DEF Push
  <2>2. RecoveryTypeOK'
    BY <1>1, <1>3, <2>1 DEF RecoveryTypeOK, Push, Asks, Places
  <2> QED
    BY <1>1, <1>2, <1>3, <2>1, <2>2 DEF RecoveryInv, Judged
<1>4. 0 \in Bearers /\ \A n \in Bearers : n < MaxTokens => n + 1 \in Bearers
  BY RecoveryAssumption DEF Bearers
<1>5. CASE LogIn \/ LogOut
  <2>1. phase' = phase /\ verdict' = verdict /\ stale' \in [Holders -> BOOLEAN]
    BY <1>5 DEF LogIn, LogOut, Outdated
  <2>2. PICK t \in Bearers : Push(t) /\ stored' \in Bearers /\ minted' \in Bearers
    BY <1>1, <1>4, <1>5 DEF LogIn, LogOut, RecoveryTypeOK
  <2>3. UNCHANGED <<linux, refused, latch, cooling>>
    BY <1>5 DEF LogIn, LogOut
  <2> QED
    BY <1>3, <2>1, <2>2, <2>3
<1>6. CASE \E t \in Bearers : Tick(t)
  <2>1. PICK t \in Bearers : Tick(t)
    BY <1>6
  <2>2. /\ Push(t) /\ stored' \in Bearers /\ minted' \in Bearers
        /\ UNCHANGED <<linux, refused, latch, cooling, phase, verdict, stale>>
    BY <1>1, <2>1 DEF Tick, RecoveryTypeOK, session, guards, checks
  <2> QED
    BY <1>1, <1>3, <2>2 DEF RecoveryTypeOK
<1>7. CASE \E r \in Requests : Arrive(r) \/ Answer(r) \/ Wait(r) \/ Deadline(r)
  BY <1>7, RequestKeepsInv
<1>8. CASE \E h \in Holders : Run(h)
  BY <1>8, CheckKeepsInv
<1>9. CASE \E h \in Sweeps : Sweep(h)
  <2>1. PICK h \in Sweeps : Sweep(h)
    BY <1>9
  <2>2. /\ h \in Holders /\ phase[h] \notin Deciding /\ phase' = [phase EXCEPT ![h] = "verify"]
        /\ UNCHANGED <<linux, watch, refused, stored, minted, cooling, req, verdict, stale>>
    BY <2>1 DEF Holders, Sweep, Reach, Deciding, session
  <2>3. "verify" \in Phases \ {"idle", "wake"}
    BY DEF Phases, Deciding
  <2>4. \A r \in Requests : Sound(req'[r], phase') /\ req[r] \in Asks
    BY <1>1, <2>2, <2>3, Onward DEF RecoveryTypeOK, Asks, Places
  <2>5. Judged'
    BY <1>1, <2>2 DEF Judged, RecoveryTypeOK
  <2>6. RecoveryTypeOK'
    BY <1>1, <1>2, <2>2 DEF RecoveryTypeOK, LatchInv, Phases
  <2> QED
    BY <1>2, <2>4, <2>5, <2>6 DEF RecoveryInv
<1>10. CASE Thaw \/ UNCHANGED recoveryVars
  <2>1. UNCHANGED <<linux, watch, refused, stored, minted, latch, phase, verdict, stale, req>> /\ cooling' \in BOOLEAN
    BY <1>1, <1>10 DEF Thaw, recoveryVars, guards, checks, session, RecoveryTypeOK
  <2> QED
    BY <1>1, <1>2, <2>1 DEF RecoveryInv, RecoveryTypeOK, Judged
<1> QED
  BY <1>5, <1>6, <1>7, <1>8, <1>9, <1>10 DEF RecoveryNext

\* The step behind `OutlastsCheck': a request that takes no step of its own
\* stays where it is, and one that does can look for a bearer in vain only once
\* it was woken.
LEMMA StepOutlasts ==
  ASSUME RecoveryInv, [RecoveryNext]_recoveryVars,
         NEW r \in Requests, req[r].at \in Waiting, GivesUp(r), watch # 0
  PROVE  req[r].joined = Nil
<1>1. RecoveryTypeOK /\ Sound(req[r], phase) /\ req[r] \in Asks /\ req \in [Requests -> Asks] /\ 0 \in Bearers
  BY RecoveryAssumption DEF RecoveryInv, RecoveryTypeOK, Asks, Places, Bearers
<1>2. req'[r].at # req[r].at
  BY DEF GivesUp, Waiting
<1>3. req[r].at \in {"ask", "swap"} => req[r].joined = Nil
  BY <1>1 DEF Sound
<1>4. CASE \E s \in Requests : Arrive(s) \/ Answer(s) \/ Wait(s) \/ Deadline(s)
  <2>1. PICK s \in Requests : Arrive(s) \/ Answer(s) \/ Wait(s) \/ Deadline(s)
    BY <1>4
  <2>2. s = r
    <3>1. PICK q \in Asks : Become(s, q)
      BY <2>1, RequestSound
    <3> QED
      BY <1>1, <1>2, <3>1, Becoming
  <2>3. CASE Look(r)
    <3>1. CASE watch = req[r].sent
      BY <1>1, <1>2, <2>3, <3>1 DEF Look, Sound, GivesUp, Become, Asks
    <3>2. CASE watch # req[r].sent
      <4>1. req'[r] = [Fresh EXCEPT !.at = "send", !.sent = watch, !.again = r \in Relayed]
        BY <1>1, <2>3, <3>2 DEF Look, Send, Become
      <4>2. req'[r].at = "send" /\ req'[r].sent = watch
        BY <4>1 DEF Fresh
      <4> QED
        BY <3>2, <4>2 DEF GivesUp
    <3> QED
      BY <3>1, <3>2
  <2>4. CASE Ask(r) \/ Swap(r) \/ Observe(r)
    BY <1>3, <2>4 DEF Ask, Swap, Observe
  <2>5. CASE Sleep(r) \/ Changed(r) \/ CheckOver(r)
    <3>1. req'[r].at \in {"wait", "look"}
      BY <1>1, <2>5 DEF Sleep, Changed, CheckOver, Goto, Become, Asks
    <3> QED
      BY <3>1 DEF GivesUp
  <2>6. CASE Deadline(r)
    BY <1>1, <2>6 DEF Deadline, End, Become, Fresh, GivesUp
  <2> QED
    BY <2>1, <2>2, <2>3, <2>4, <2>5, <2>6 DEF Wait, Answer, Arrive, Accept, Refuse, Counted, Late, Waiting
<1>5. CASE ~\E s \in Requests : Arrive(s) \/ Answer(s) \/ Wait(s) \/ Deadline(s)
  <2>1. req'[r].at = req[r].at
    <3> DEFINE n == Notified(req)
    <3>1. n[r].at = req[r].at
      BY <1>1 DEF Notified, Asks
    <3>2. CASE LogIn \/ LogOut \/ \E t \in Bearers : Tick(t)
      BY <3>1, <3>2 DEF LogIn, LogOut, Tick, Push
    <3>3. CASE \E h \in Holders : Run(h)
      <4>1. PICK h \in Holders : Run(h)
        BY <3>3
      <4>2. Settled(h, req)[r].at = req[r].at
        BY <1>1 DEF Settled, Asks
      <4>3. Settled(h, n)[r].at = req[r].at
        <5>1. n[r] \in Asks
          BY <1>1, Marked DEF Notified
        <5> HIDE DEF n
        <5> QED
          BY <3>1, <5>1 DEF Settled, Asks
      <4>4. CASE WakeWaiters(h)
        BY <1>1, <4>4 DEF WakeWaiters, Asks
      <4>5. CASE ~WakeWaiters(h)
        BY <4>1, <4>2, <4>3, <4>5 DEF Run, Recovered, Dead, Decide, Unchanged, Pushes, Cool, Unlatch
      <4> QED
        BY <4>4, <4>5
    <3>4. CASE (\E h \in Sweeps : Sweep(h)) \/ Thaw \/ UNCHANGED recoveryVars
      BY <3>4 DEF Sweep, Thaw, recoveryVars
    <3> QED
      BY <1>5, <3>2, <3>3, <3>4 DEF RecoveryNext
  <2> QED
    BY <1>2, <2>1
<1> QED
  BY <1>4, <1>5

\* The state of the recovery is what its variables declare.
THEOREM RecoveryTypeCorrect == RecoverySpec => []RecoveryTypeOK
<1>1. RecoveryInv => RecoveryTypeOK
  BY DEF RecoveryInv
<1> QED
  BY InitRecoveryInv, NextKeepsRecoveryInv, <1>1, PTL DEF RecoverySpec

\* A request that waits has been woken, or a check is under way that will wake
\* it: recovered_token registers its wake-up before it asks, and the
\* drop of GateAuthCheck wakes whoever is registered.
THEOREM WakeupsKept == RecoverySpec => []NoLostWakeup
<1>1. RecoveryInv => NoLostWakeup
  BY DEF RecoveryInv, Sound, NoLostWakeup
<1> QED
  BY InitRecoveryInv, NextKeepsRecoveryInv, <1>1, PTL DEF RecoverySpec

\* A request that joined a check does not give up before it has decided, but at
\* its deadline: recovered_token looks at the watch again after every wake-up.
THEOREM ChecksOutlasted == RecoverySpec => OutlastsCheck
<1>1. RecoveryInv /\ [RecoveryNext]_recoveryVars =>
        [\A r \in Requests : req[r].at \in Waiting /\ GivesUp(r) /\ watch # 0 => req[r].joined = Nil]_recoveryVars
  BY StepOutlasts
<1> QED
  BY InitRecoveryInv, NextKeepsRecoveryInv, <1>1, PTL DEF RecoverySpec, OutlastsCheck
=============================================================================
