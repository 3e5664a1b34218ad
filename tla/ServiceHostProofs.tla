-------------------------- MODULE ServiceHostProofs --------------------------
(***************************************************************************)
(* Theorems about ServiceHost, for every number of cookies, introduction   *)
(* points, sessions and routes that may fail.  A lemma for each action     *)
(* says that it keeps the inductive invariant; its step <1>E, where it has *)
(* one, says what the action does to the fields of main, intro and flags.  *)
(***************************************************************************)
EXTENDS ServiceHost, FiniteSetTheorems, TLAPS

\* The cookie of the main thread: the initial one until it is offered, then the
\* one of the offer that is under way.
CookieOfMain ==
    /\ main.initial => main.cookie # None
    /\ main.at \in {"built", "register"} => main.initial
    /\ main.at \in {"open", "request", "route failed", "failed"} =>
        ~main.initial /\ main.cookie # None
    /\ main.at \in {"start", "recover", "ended"} => ~main.initial
    /\ main.at \in {"start", "loop", "recover", "leave", "ended"} /\ ~main.initial =>
        main.cookie = None

\* There is room for the offer under way: nobody else adds to what is counted.
Counted ==
    /\ IsFiniteSet(pending) /\ IsFiniteSet(sessions)
    /\ Cardinality(sessions) + Cardinality(pending) <= MaxSessions
    /\ main.at \in {"open", "request"} => ~Full

\* The cookie of the main thread is in nobody else's hands, and what a client
\* holds is a handshake's or a session's.
Fresh ==
    /\ main.cookie \notin pending \cup sessions
    /\ main.cookie # None => \A i \in Introductions : intro[i].grant # main.cookie
    /\ granted \subseteq pending \cup sessions

\* The main thread leaves its loop for a reason that wait_ready() is told of, as a
\* row of failed routes is one.
Told ==
    /\ main.at \notin {"recover", "leave", "ended"} => main.failures < RouteFailureLimit
    /\ main.at = "recover" => flags.recovery
    /\ main.at = "leave" /\ ~Leaving => flags.errors \/ flags.crashed

\* The inductive invariant.
IInv ==
    /\ Accounted /\ GrantsAreLive /\ ReadyMeansOffered
    /\ CookieOfMain /\ Counted /\ Fresh /\ Told

-----------------------------------------------------------------------------
\* What survives a step that leaves handshakes and sessions alone.
LEMMA CountedFrame ==
    ASSUME Counted, UNCHANGED <<pending, sessions>>,
           main'.at \in {"open", "request"} => main.at \in {"open", "request"}
    PROVE  Counted'
  BY DEF Counted, Full

\* What survives a step in which grants are only given up, as the cookie of the main
\* thread may be.
LEMMA FreshFrame ==
    ASSUME Fresh, UNCHANGED <<pending, sessions, granted>>, None \notin pending \cup sessions,
           main'.cookie \in {main.cookie, None},
           \A j \in Introductions : intro'[j].grant \in {intro[j].grant, None}
    PROVE  Fresh'
  BY DEF Fresh

LEMMA GrantsFrame ==
    ASSUME GrantsAreLive, UNCHANGED <<slot, granted, worker, circuit>>,
           \A j \in Introductions : intro'[j].grant \in {intro[j].grant, None}
    PROVE  GrantsAreLive'
  BY DEF GrantsAreLive

\* What survives a step that opens no circuit and keeps those who answer for them.
LEMMA OwnedFrame ==
    ASSUME Owned, UNCHANGED <<listed, pending, sessions, worker>>, main'.cookie = main.cookie,
           main.at = "built" =>
               main'.at = "built" \/ \A i \in Introductions : circuit'[i] # "open" \/ listed',
           \A x \in Circuits : circuit'[x] = "open" => circuit[x] = "open"
    PROVE  Owned'
  BY DEF Owned, Circuits

\* The parts are enough: what is counted apart is what is counted together.
LEMMA IInvParts ==
    ASSUME TypeOK', CookieOfMain' /\ Told', Counted', Fresh', Owned', GrantsAreLive',
           ReadyMeansOffered'
    PROVE  IInv'
<1>1. Cardinality(pending' \cup sessions') =
        Cardinality(pending') + Cardinality(sessions') - Cardinality(pending' \cap sessions')
  BY FS_Union DEF Counted
<1>2. Cardinality(pending' \cap sessions') = 0
  BY FS_EmptySet DEF Owned
<1>3. Cardinality(pending') \in Nat /\ Cardinality(sessions') \in Nat
  BY FS_CardinalityType DEF Counted
<1>4. Cardinality(pending' \cup sessions') <= MaxSessions
  BY <1>1, <1>2, <1>3, HostAssumption DEF Counted
<1> QED
  BY <1>4 DEF IInv, Accounted

\* _run() builds every circuit: the new cookie is nobody's.
LEMMA BuildStep ==
    ASSUME IInv, Build
    PROVE  IInv'
<1> USE HostAssumption DEF Build, Stopping
<1>1. TypeOK /\ Owned /\ CookieOfMain /\ Counted /\ Fresh /\ Told
  BY DEF IInv, Accounted
<1>2. GrantsAreLive /\ ReadyMeansOffered
  BY DEF IInv
<1>3. TypeOK'
  <2>2. main' \in Mains
    BY <1>1 DEF TypeOK, Mains, Places
  <2> QED
    BY <1>1, <2>2 DEF TypeOK
<1>4. CookieOfMain' /\ Told'
  BY <1>1 DEF CookieOfMain, Told
<1>5. Counted'
  BY <1>1 DEF Counted
<1>6. Fresh'
  BY <1>1 DEF Fresh, Free
<1>7. Owned'
  BY <1>1 DEF Owned, CookieOfMain, Circuits
<1>8. GrantsAreLive'
  BY <1>1, <1>2 DEF GrantsAreLive, TypeOK, Circuits
<1>9. ReadyMeansOffered'
  BY <1>2 DEF ReadyMeansOffered, Leaving
<1> QED
  BY <1>3, <1>4, <1>5, <1>6, <1>7, <1>8, <1>9, IInvParts

\* A build fails: the main thread leaves with an error, unless it was stopped.
LEMMA BuildFailsStep ==
    ASSUME IInv, BuildFails
    PROVE  IInv'
<1> USE HostAssumption DEF BuildFails, Stopping
<1>1. TypeOK /\ Owned /\ CookieOfMain /\ Counted /\ Fresh /\ Told
  BY DEF IInv, Accounted
<1>2. GrantsAreLive /\ ReadyMeansOffered
  BY DEF IInv
<1>3. TypeOK'
  BY <1>1 DEF TypeOK, Mains, Places, Flags
<1>E. /\ main'.at = "leave" /\ main'.cookie = main.cookie /\ main'.initial = main.initial
      /\ main'.failures = main.failures
      /\ flags'.ready = flags.ready /\ flags'.recovery = flags.recovery /\ flags'.errors = ~Stopping
      /\ flags'.offered = flags.offered /\ flags'.crashed = flags.crashed
  OBVIOUS
<1>4. CookieOfMain' /\ Told'
  BY <1>1, <1>E DEF CookieOfMain, Told, Leaving
<1>5. Counted'
  BY <1>1 DEF Counted
<1>6. Fresh'
  BY <1>1 DEF Fresh
<1>7. Owned'
  BY <1>1 DEF Owned
<1>8. GrantsAreLive'
  BY <1>2 DEF GrantsAreLive
<1>9. ReadyMeansOffered'
  BY <1>E DEF ReadyMeansOffered, Leaving
<1> QED
  BY <1>3, <1>4, <1>5, <1>6, <1>7, <1>8, <1>9, IInvParts

\* A worker of the executor cannot be started: the main thread dies of it, and at
\* most one circuit is lost, which was not open.
LEMMA BuildThreadFailsStep ==
    ASSUME IInv, BuildThreadFails
    PROVE  IInv'
<1> USE HostAssumption DEF BuildThreadFails
<1>1. TypeOK /\ Owned /\ CookieOfMain /\ Counted /\ Fresh /\ Told
  BY DEF IInv, Accounted
<1>2. GrantsAreLive /\ ReadyMeansOffered
  BY DEF IInv
<1>L. PICK lost \in {x \in Circuits : circuit[x] = "none"} \cup {None} :
         circuit' = [x \in Circuits |-> IF x = lost THEN "lost" ELSE circuit[x]]
  OBVIOUS
<1>3. TypeOK'
  <2>1. main' \in Mains
    BY <1>1 DEF TypeOK, Mains, Places
  <2>2. flags' \in Flags
    BY <1>1 DEF TypeOK, Flags
  <2>3. circuit' \in [Circuits -> {"none", "open", "closed", "lost"}]
    BY <1>1, <1>L DEF TypeOK
  <2> QED
    BY <1>1, <2>1, <2>2, <2>3 DEF TypeOK
<1>4. CookieOfMain' /\ Told'
  BY <1>1 DEF CookieOfMain, Told
<1>5. Counted'
  BY <1>1 DEF Counted
<1>6. Fresh'
  BY <1>1 DEF Fresh
<1>7. Owned'
  BY <1>1, <1>L DEF Owned, Circuits
<1>8. GrantsAreLive'
  BY <1>1, <1>2, <1>L DEF GrantsAreLive, TypeOK, Circuits
<1>9. ReadyMeansOffered'
  BY <1>2 DEF ReadyMeansOffered, Leaving, Stopping
<1> QED
  BY <1>3, <1>4, <1>5, <1>6, <1>7, <1>8, <1>9, IInvParts

\* The circuits are published under the lock, or closed when a stop came first.
LEMMA PublishInitialStep ==
    ASSUME IInv, PublishInitial
    PROVE  IInv'
<1> USE HostAssumption DEF PublishInitial, Stopping, Close
<1>1. TypeOK /\ Owned /\ CookieOfMain /\ Counted /\ Fresh /\ Told
  BY DEF IInv, Accounted
<1>2. GrantsAreLive /\ ReadyMeansOffered
  BY DEF IInv
<1>3. TypeOK'
  <2>1. main' \in Mains
    <3>1. main \in Mains /\ \E p \in {"leave", "register"} : main' = [main EXCEPT !.at = p]
      BY <1>1 DEF TypeOK
    <3> HIDE DEF PublishInitial
    <3> QED
      BY <3>1 DEF Mains, Places
  <2>3. listed' \in BOOLEAN /\ published' \in Cookies \cup {None}
    BY <1>1 DEF TypeOK, Mains
  <2> QED
    BY <1>1, <2>1, <2>3 DEF TypeOK
<1>E. /\ main'.at \in {"leave", "register"} /\ main'.cookie = main.cookie /\ main'.initial = main.initial
      /\ main'.failures = main.failures
      /\ main'.at = "leave" <=> Stopping
  BY <1>1 DEF TypeOK, Mains
<1>4. CookieOfMain' /\ Told'
  <2>1. UNCHANGED <<stop, flags>> /\ main.at = "built"
    OBVIOUS
  <2> HIDE DEF PublishInitial
  <2>2. main.initial /\ main.cookie # None
    BY <1>1, <2>1 DEF CookieOfMain
  <2>3. CookieOfMain'
    BY <2>2, <1>E DEF CookieOfMain
  <2>4. Told'
    BY <1>1, <2>1, <1>E DEF Told, Leaving
  <2> QED
    BY <2>3, <2>4
<1>5. Counted'
  <2>1. UNCHANGED <<pending, sessions>>
    OBVIOUS
  <2> QED
    BY <1>1, <1>E, <2>1, CountedFrame
<1>6. Fresh'
  <2>1. UNCHANGED <<pending, sessions, granted, intro>>
    OBVIOUS
  <2>2. None \notin pending \cup sessions
    BY <1>1 DEF TypeOK
  <2> QED
    BY <1>1, <1>E, <2>1, <2>2, FreshFrame
<1>7. Owned'
  <2>1. CASE Stopping
    <3> QED
      BY <1>1, <1>E DEF Owned, Circuits
  <2>2. CASE ~Stopping
    BY <1>1, <1>E, <2>2 DEF Owned
  <2> QED
    BY <2>1, <2>2
<1>8. GrantsAreLive'
  BY <1>1, <1>2 DEF GrantsAreLive, Owned, Fresh, TypeOK, Circuits
<1>9. ReadyMeansOffered'
  BY <1>2 DEF ReadyMeansOffered, Leaving
<1> QED
  BY <1>3, <1>4, <1>5, <1>6, <1>7, <1>8, <1>9, IInvParts

\* Every introduction is registered and its thread started: nobody has a grant yet.
LEMMA RegisterIntroductionsStep ==
    ASSUME IInv, RegisterIntroductions
    PROVE  IInv'
<1> USE HostAssumption DEF RegisterIntroductions
<1>1. TypeOK /\ Owned /\ CookieOfMain /\ Counted /\ Fresh /\ Told
  BY DEF IInv, Accounted
<1>2. GrantsAreLive /\ ReadyMeansOffered
  BY DEF IInv
<1>3. TypeOK'
  <2>1. main' \in Mains
    BY <1>1 DEF TypeOK, Mains, Places
  <2>2. intro' \in [Introductions -> Threads]
    BY <1>1 DEF TypeOK, Threads
  <2> QED
    BY <1>1, <2>1, <2>2 DEF TypeOK
<1>E. /\ main'.at = "loop" /\ main'.cookie = main.cookie /\ main'.initial = main.initial
      /\ main'.failures = main.failures
      /\ \A j \in Introductions : intro'[j].grant = intro[j].grant
  BY <1>1 DEF TypeOK, Threads
<1>4. CookieOfMain' /\ Told'
  BY <1>1 DEF CookieOfMain, Told
<1>5. Counted'
  BY <1>1 DEF Counted
<1>6. Fresh'
  BY <1>1, <1>E DEF Fresh
<1>7. Owned'
  BY <1>1 DEF Owned
<1>8. GrantsAreLive'
  <2>1. UNCHANGED <<slot, granted, worker, circuit>>
    OBVIOUS
  <2> QED
    BY <1>2, <1>E, <2>1, GrantsFrame
<1>9. ReadyMeansOffered'
  BY <1>2 DEF ReadyMeansOffered, Stopping, Leaving
<1> QED
  BY <1>3, <1>4, <1>5, <1>6, <1>7, <1>8, <1>9, IInvParts

\* A registration fails: the main thread leaves with an error.
LEMMA RegistrationFailsStep ==
    ASSUME IInv, NEW i \in Introductions, RegistrationFails(i)
    PROVE  IInv'
<1> USE HostAssumption DEF RegistrationFails, Stopping, Close
<1>1. TypeOK /\ Owned /\ CookieOfMain /\ Counted /\ Fresh /\ Told
  BY DEF IInv, Accounted
<1>2. GrantsAreLive /\ ReadyMeansOffered
  BY DEF IInv
<1>3. TypeOK'
  BY <1>1 DEF TypeOK, Mains, Places, Flags
<1>E. /\ main'.at = "leave" /\ main'.cookie = main.cookie /\ main'.initial = main.initial
      /\ main'.failures = main.failures
      /\ flags'.ready = flags.ready /\ flags'.recovery = flags.recovery /\ flags'.errors = ~Stopping
      /\ flags'.offered = flags.offered /\ flags'.crashed = flags.crashed
  OBVIOUS
<1>4. CookieOfMain' /\ Told'
  BY <1>1, <1>E DEF CookieOfMain, Told, Leaving
<1>5. Counted'
  BY <1>1 DEF Counted
<1>6. Fresh'
  BY <1>1 DEF Fresh
<1>7. Owned'
  BY <1>1 DEF Owned, Circuits
<1>8. GrantsAreLive'
  BY <1>1, <1>2 DEF GrantsAreLive, TypeOK, Circuits
<1>9. ReadyMeansOffered'
  BY <1>E DEF ReadyMeansOffered, Leaving
<1> QED
  BY <1>3, <1>4, <1>5, <1>6, <1>7, <1>8, <1>9, IInvParts

\* A thread cannot be started: the main thread dies of it.
LEMMA IntroductionThreadFailsStep ==
    ASSUME IInv, IntroductionThreadFails
    PROVE  IInv'
<1> USE HostAssumption DEF IntroductionThreadFails
<1>1. TypeOK /\ Owned /\ CookieOfMain /\ Counted /\ Fresh /\ Told
  BY DEF IInv, Accounted
<1>2. GrantsAreLive /\ ReadyMeansOffered
  BY DEF IInv
<1>3. TypeOK'
  <2>1. main' \in Mains
    BY <1>1 DEF TypeOK, Mains, Places
  <2>2. intro' \in [Introductions -> Threads]
    BY <1>1 DEF TypeOK, Threads
  <2>3. flags' \in Flags
    BY <1>1 DEF TypeOK, Flags
  <2> QED
    BY <1>1, <2>1, <2>2, <2>3 DEF TypeOK
<1>4. CookieOfMain' /\ Told'
  BY <1>1 DEF CookieOfMain, Told
<1>5. Counted'
  BY <1>1 DEF Counted
<1>6. Fresh'
  BY <1>1 DEF Fresh
<1>7. Owned'
  BY <1>1 DEF Owned
<1>8. GrantsAreLive'
  BY <1>2 DEF GrantsAreLive
<1>9. ReadyMeansOffered'
  BY <1>2 DEF ReadyMeansOffered, Leaving, Stopping
<1> QED
  BY <1>3, <1>4, <1>5, <1>6, <1>7, <1>8, <1>9, IInvParts

\* The cookie of the next offer is the initial one or a new one, and there is room for it.
LEMMA BeginOfferStep ==
    ASSUME IInv, BeginOffer
    PROVE  IInv'
<1> USE HostAssumption DEF BeginOffer, Leaving, Stopping
<1>1. TypeOK /\ Owned /\ CookieOfMain /\ Counted /\ Fresh /\ Told
  BY DEF IInv, Accounted
<1>2. GrantsAreLive /\ ReadyMeansOffered
  BY DEF IInv
<1>3. TypeOK'
  BY <1>1 DEF TypeOK, Mains, Places, Threads
<1>E. /\ main'.at = "open" /\ ~main'.initial /\ main'.failures = main.failures
      /\ \/ main'.cookie = main.cookie /\ main.initial
         \/ main'.cookie \in Cookies /\ Free(main'.cookie) /\ ~main.initial
  <2>1. main \in Mains
    BY <1>1 DEF TypeOK
  <2>2. CASE main.initial /\ main' = [main EXCEPT !.at = "open", !.initial = FALSE]
    <3>1. main'.at = "open" /\ main'.cookie = main.cookie /\ main'.failures = main.failures
      BY <2>2
    <3>2. main'.initial = FALSE
      BY <2>2
    <3> QED
      BY <2>2, <3>1, <3>2
  <2>3. CASE ~main.initial /\ \E c \in Cookies : Free(c) /\ main' = [main EXCEPT !.at = "open", !.cookie = c]
    <3> QED
      BY <2>1 DEF Mains
  <2> QED
    BY <2>2, <2>3
<1>4. CookieOfMain' /\ Told'
  <2>2. main.at = "loop"
    OBVIOUS
  <2> HIDE DEF BeginOffer
  <2> QED
    BY <1>1, <1>E, <2>2 DEF CookieOfMain, Told
<1>5. Counted'
  BY <1>1 DEF Counted, Full
<1>6. Fresh'
  BY <1>1, <1>E DEF Fresh, Free
<1>7. Owned'
  <2>1. /\ main.cookie = None \/ main'.cookie = main.cookie
        /\ main.at # "built"
    BY <1>1, <1>E DEF CookieOfMain
  <2>2. UNCHANGED <<circuit, listed, pending, sessions, worker>>
    OBVIOUS
  <2> HIDE DEF BeginOffer
  <2> QED
    BY <1>1, <2>1, <2>2 DEF Owned
<1>8. GrantsAreLive'
  BY <1>2 DEF GrantsAreLive
<1>9. ReadyMeansOffered'
  BY <1>2 DEF ReadyMeansOffered
<1> QED
  BY <1>3, <1>4, <1>5, <1>6, <1>7, <1>8, <1>9, IInvParts

\* The main thread leaves its loop, as it was told to.
LEMMA LeaveLoopStep ==
    ASSUME IInv, LeaveLoop
    PROVE  IInv'
<1> USE HostAssumption DEF LeaveLoop, Leaving, Stopping
<1>1. TypeOK /\ Owned /\ CookieOfMain /\ Counted /\ Fresh /\ Told
  BY DEF IInv, Accounted
<1>2. GrantsAreLive /\ ReadyMeansOffered
  BY DEF IInv
<1>3. TypeOK'
  BY <1>1 DEF TypeOK, Mains, Places
<1>4. CookieOfMain' /\ Told'
  BY <1>1 DEF CookieOfMain, Told
<1>5. Counted'
  BY <1>1 DEF Counted
<1>6. Fresh'
  BY <1>1 DEF Fresh
<1>7. Owned'
  BY <1>1 DEF Owned
<1>8. GrantsAreLive'
  BY <1>2 DEF GrantsAreLive
<1>9. ReadyMeansOffered'
  BY DEF ReadyMeansOffered
<1> QED
  BY <1>3, <1>4, <1>5, <1>6, <1>7, <1>8, <1>9, IInvParts

\* The descriptor expires: the main thread leaves with an error.
LEMMA LoopExpiresStep ==
    ASSUME IInv, LoopExpires
    PROVE  IInv'
<1> USE HostAssumption DEF LoopExpires, Leaving, Stopping
<1>1. TypeOK /\ Owned /\ CookieOfMain /\ Counted /\ Fresh /\ Told
  BY DEF IInv, Accounted
<1>2. GrantsAreLive /\ ReadyMeansOffered
  BY DEF IInv
<1>3. TypeOK'
  BY <1>1 DEF TypeOK, Mains, Places, Flags
<1>4. CookieOfMain' /\ Told'
  BY <1>1 DEF CookieOfMain, Told
<1>5. Counted'
  BY <1>1 DEF Counted
<1>6. Fresh'
  BY <1>1 DEF Fresh
<1>7. Owned'
  BY <1>1 DEF Owned
<1>8. GrantsAreLive'
  BY <1>2 DEF GrantsAreLive
<1>9. ReadyMeansOffered'
  BY DEF ReadyMeansOffered
<1> QED
  BY <1>3, <1>4, <1>5, <1>6, <1>7, <1>8, <1>9, IInvParts

\* The circuit opened belongs to the cookie of the main thread.
LEMMA OpenRendezvousStep ==
    ASSUME IInv, OpenRendezvous
    PROVE  IInv'
<1> USE HostAssumption DEF OpenRendezvous, Leaving, Stopping
<1>1. TypeOK /\ Owned /\ CookieOfMain /\ Counted /\ Fresh /\ Told
  BY DEF IInv, Accounted
<1>2. GrantsAreLive /\ ReadyMeansOffered
  BY DEF IInv
<1>3. TypeOK'
  BY <1>1 DEF TypeOK, Mains, Places
<1>E. /\ main'.at = "request" /\ main'.cookie = main.cookie /\ main'.initial = main.initial
      /\ main'.failures = main.failures
  OBVIOUS
<1>4. CookieOfMain' /\ Told'
  BY <1>1 DEF CookieOfMain, Told
<1>5. Counted'
  BY <1>1 DEF Counted, Full
<1>6. Fresh'
  BY <1>1 DEF Fresh
<1>7. Owned'
  <2>1. /\ UNCHANGED <<listed, pending, sessions, worker>> /\ main.at # "built"
        /\ \A x \in Circuits : circuit'[x] = "open" => circuit[x] = "open" \/ x = main.cookie
    OBVIOUS
  <2>2. main.cookie \notin Introductions
    BY <1>1 DEF TypeOK, Mains, CookieOfMain
  <2> HIDE DEF OpenRendezvous
  <2> QED
    BY <1>1, <1>E, <2>1, <2>2 DEF Owned, Circuits
<1>8. GrantsAreLive'
  BY <1>2 DEF GrantsAreLive
<1>9. ReadyMeansOffered'
  BY <1>2 DEF ReadyMeansOffered
<1> QED
  BY <1>3, <1>4, <1>5, <1>6, <1>7, <1>8, <1>9, IInvParts

\* A route fails: the circuit stays with the main thread until it is cleaned up.
LEMMA RouteFailsStep ==
    ASSUME IInv, RouteFails
    PROVE  IInv'
<1> USE HostAssumption DEF RouteFails, Leaving, Stopping
<1>1. TypeOK /\ Owned /\ CookieOfMain /\ Counted /\ Fresh /\ Told
  BY DEF IInv, Accounted
<1>2. GrantsAreLive /\ ReadyMeansOffered
  BY DEF IInv
<1>3. TypeOK'
  BY <1>1 DEF TypeOK, Mains, Places, Threads
<1>E. /\ main'.at \in {"failed", "route failed"} /\ main'.cookie = main.cookie /\ main'.initial = main.initial
      /\ main'.failures = main.failures
  BY <1>1 DEF TypeOK, Mains
<1>4. CookieOfMain' /\ Told'
  BY <1>1, <1>E DEF CookieOfMain, Told
<1>5. Counted'
  BY <1>1, <1>E DEF Counted
<1>6. Fresh'
  BY <1>1, <1>E DEF Fresh
<1>7. Owned'
  BY <1>1, <1>E DEF Owned
<1>8. GrantsAreLive'
  BY <1>2 DEF GrantsAreLive
<1>9. ReadyMeansOffered'
  BY <1>2 DEF ReadyMeansOffered
<1> QED
  BY <1>3, <1>4, <1>5, <1>6, <1>7, <1>8, <1>9, IInvParts

\* The cookie goes from the main thread to its worker, and takes the room kept for it.
LEMMA CommitStep ==
    ASSUME IInv, Commit
    PROVE  IInv'
<1> USE HostAssumption DEF Commit, Leaving, Stopping, Offer
<1>1. TypeOK /\ Owned /\ CookieOfMain /\ Counted /\ Fresh /\ Told
  BY DEF IInv, Accounted
<1>2. GrantsAreLive /\ ReadyMeansOffered
  BY DEF IInv
<1>3. TypeOK'
  <2>1. main.cookie \in Cookies
    BY <1>1 DEF TypeOK, Mains, CookieOfMain
  <2>2. main' = [main EXCEPT !.at = "loop", !.cookie = None, !.failures = 0]
    OBVIOUS
  <2>3. main' \in Mains
    <3>1. main \in Mains /\ 0 \in 0 .. RouteFailureLimit
      BY <1>1 DEF TypeOK
    <3> HIDE DEF Commit
    <3> QED
      BY <2>2, <3>1 DEF Mains, Places
  <2> QED
    BY <1>1, <2>1, <2>3 DEF TypeOK, Flags
<1>4. CookieOfMain' /\ Told'
  BY <1>1 DEF CookieOfMain, Told
<1>5. Counted'
  <2>1. pending' = pending \cup {main.cookie} /\ sessions' = sessions /\ ~Full
    BY <1>1 DEF Counted
  <2>2. main.cookie \notin pending /\ main'.at = "loop"
    BY <1>1 DEF Fresh
  <2> HIDE DEF Commit
  <2>3. IsFiniteSet(pending') /\ Cardinality(pending') = Cardinality(pending) + 1
    BY <1>1, <2>1, <2>2, FS_AddElement DEF Counted
  <2>4. Cardinality(pending) \in Nat /\ Cardinality(sessions) \in Nat
    BY <1>1, FS_CardinalityType DEF Counted
  <2> QED
    BY <1>1, <2>1, <2>2, <2>3, <2>4 DEF Counted, Full
<1>6. Fresh'
  BY <1>1 DEF Fresh, TypeOK, CookieOfMain
<1>7. Owned'
  <2>1. main.cookie \in Cookies /\ main.cookie \notin sessions
    BY <1>1 DEF TypeOK, Mains, CookieOfMain, Fresh
  <2>2. /\ pending' = pending \cup {main.cookie} /\ UNCHANGED <<circuit, listed, sessions>>
        /\ \A d \in Cookies : worker'[d] = IF d = main.cookie THEN "handshake" ELSE worker[d]
        /\ main.at # "built"
    BY <1>1 DEF TypeOK
  <2> HIDE DEF Commit
  <2> QED
    BY <1>1, <2>1, <2>2 DEF Owned
<1>8. GrantsAreLive'
  <2>1. main.cookie \in Cookies /\ main.cookie \notin granted /\ circuit[main.cookie] = "open"
    BY <1>1 DEF TypeOK, Mains, CookieOfMain, Fresh
  <2>2. \A i \in Introductions : intro[i].grant # main.cookie
    BY <1>1 DEF Fresh, CookieOfMain
  <2>3. slot' = main.cookie /\ UNCHANGED <<circuit, intro, granted>> /\ worker'[main.cookie] = "handshake"
    BY <1>1, <2>1 DEF TypeOK
  <2> HIDE DEF Commit
  <2> QED
    BY <1>2, <2>1, <2>2, <2>3 DEF GrantsAreLive
<1>9. ReadyMeansOffered'
  BY DEF ReadyMeansOffered
<1> QED
  BY <1>3, <1>4, <1>5, <1>6, <1>7, <1>8, <1>9, IInvParts

\* The offer is given up: the circuit stays with the main thread.
LEMMA CommitFailsStep ==
    ASSUME IInv, CommitFails
    PROVE  IInv'
<1> USE HostAssumption DEF CommitFails, Leaving, Stopping
<1>1. TypeOK /\ Owned /\ CookieOfMain /\ Counted /\ Fresh /\ Told
  BY DEF IInv, Accounted
<1>2. GrantsAreLive /\ ReadyMeansOffered
  BY DEF IInv
<1>3. TypeOK'
  BY <1>1 DEF TypeOK, Mains, Places
<1>4. CookieOfMain' /\ Told'
  BY <1>1 DEF CookieOfMain, Told
<1>5. Counted'
  BY <1>1 DEF Counted
<1>6. Fresh'
  BY <1>1 DEF Fresh
<1>7. Owned'
  BY <1>1 DEF Owned
<1>8. GrantsAreLive'
  BY <1>2 DEF GrantsAreLive
<1>9. ReadyMeansOffered'
  BY <1>2 DEF ReadyMeansOffered
<1> QED
  BY <1>3, <1>4, <1>5, <1>6, <1>7, <1>8, <1>9, IInvParts

\* A thread of the circuit, or of its multiplexer, cannot be started: the circuit
\* is closed and the main thread dies of it.
LEMMA OfferThreadFailsStep ==
    ASSUME IInv, OfferThreadFails
    PROVE  IInv'
<1> USE HostAssumption DEF OfferThreadFails, Close
<1>1. TypeOK /\ Owned /\ CookieOfMain /\ Counted /\ Fresh /\ Told
  BY DEF IInv, Accounted
<1>2. GrantsAreLive /\ ReadyMeansOffered
  BY DEF IInv
<1>3. TypeOK'
  <2>1. main' \in Mains
    BY <1>1 DEF TypeOK, Mains, Places
  <2>2. flags' \in Flags
    BY <1>1 DEF TypeOK, Flags
  <2>3. circuit' \in [Circuits -> {"none", "open", "closed", "lost"}]
    BY <1>1 DEF TypeOK
  <2> QED
    BY <1>1, <2>1, <2>2, <2>3 DEF TypeOK
<1>E. /\ main'.at = "leave" /\ main'.cookie = None /\ main'.initial = main.initial
      /\ flags'.ready = flags.ready /\ flags'.recovery = flags.recovery
      /\ flags'.errors = flags.errors /\ flags'.offered = flags.offered /\ flags'.crashed
  BY <1>1 DEF TypeOK, Flags
<1>4. CookieOfMain' /\ Told'
  <2>1. ~main.initial
    BY <1>1 DEF CookieOfMain
  <2> HIDE DEF OfferThreadFails
  <2> QED
    BY <1>E, <2>1 DEF CookieOfMain, Told
<1>5. Counted'
  <2>1. UNCHANGED <<pending, sessions>>
    OBVIOUS
  <2> HIDE DEF OfferThreadFails
  <2> QED
    BY <1>1, <1>E, <2>1, CountedFrame
<1>6. Fresh'
  <2>1. UNCHANGED <<pending, sessions, granted, intro>>
    OBVIOUS
  <2> HIDE DEF OfferThreadFails
  <2>2. None \notin pending \cup sessions
    BY <1>1 DEF TypeOK
  <2> QED
    BY <1>1, <1>E, <2>1, <2>2, FreshFrame
<1>7. Owned'
  BY <1>1 DEF Owned, Circuits
<1>8. GrantsAreLive'
  BY <1>1, <1>2 DEF GrantsAreLive, Owned, Fresh, CookieOfMain, TypeOK, Circuits
<1>9. ReadyMeansOffered'
  <2>1. main.at # "ended" /\ UNCHANGED stop
    OBVIOUS
  <2> HIDE DEF OfferThreadFails
  <2> QED
    BY <1>2, <1>E, <2>1 DEF ReadyMeansOffered, Leaving, Stopping
<1> QED
  BY <1>3, <1>4, <1>5, <1>6, <1>7, <1>8, <1>9, IInvParts

\* The circuit is closed; the last of several failed routes asks for a recovery.
LEMMA CleanUpStep ==
    ASSUME IInv, CleanUp
    PROVE  IInv'
<1> USE HostAssumption DEF CleanUp, Leaving, Stopping, Close, Recovery
<1>1. TypeOK /\ Owned /\ CookieOfMain /\ Counted /\ Fresh /\ Told
  BY DEF IInv, Accounted
<1>2. GrantsAreLive /\ ReadyMeansOffered
  BY DEF IInv
<1>3. TypeOK'
  <2>1. main.failures \in 0 .. RouteFailureLimit
    BY <1>1 DEF TypeOK, Mains
  <2>2. (IF main.at = "failed" THEN 0 ELSE main.failures + 1) \in 0 .. RouteFailureLimit
    <3>1. main.at \in {"route failed", "failed"}
      OBVIOUS
    <3> HIDE DEF CleanUp
    <3>2. main.failures < RouteFailureLimit
      BY <1>1, <3>1 DEF Told
    <3>3. main.failures \in Nat /\ RouteFailureLimit \in Nat \ {0}
      BY <2>1
    <3> QED
      BY <3>2, <3>3
  <2>3. (IF Leaving \/ ~flags.ready THEN "leave" ELSE IF Recovery THEN "recover" ELSE "loop") \in Places
    BY DEF Places
  <2>4. main' \in Mains
    BY <1>1, <2>2, <2>3 DEF TypeOK, Mains
  <2>5. flags' \in Flags
    BY <1>1 DEF TypeOK, Flags
  <2> QED
    BY <1>1, <2>4, <2>5 DEF TypeOK
<1>E. /\ main'.at \in {"leave", "recover", "loop"} /\ main'.cookie = None /\ main'.initial = main.initial
      /\ flags'.ready = flags.ready /\ flags'.offered = flags.offered /\ flags'.crashed = flags.crashed
      /\ main'.at = "leave" => Leaving \/ flags'.errors
      /\ main'.at = "recover" => flags'.recovery
      /\ main'.at = "loop" => main'.failures < RouteFailureLimit
      /\ (flags'.errors <=> flags.errors \/ (~Leaving /\ ~flags.ready))
      /\ flags.recovery => flags'.recovery
  <2>1. main \in Mains /\ flags \in Flags
    BY <1>1 DEF TypeOK
  <2>2. main'.cookie = None /\ main'.initial = main.initial
    BY <2>1 DEF Mains
  <2>3. main'.at = IF Leaving \/ ~flags.ready THEN "leave" ELSE IF Recovery THEN "recover" ELSE "loop"
    BY <2>1 DEF Mains
  <2>4. main'.failures = IF main.at = "failed" THEN 0 ELSE main.failures + 1
    BY <2>1 DEF Mains
  <2>5. flags'.ready = flags.ready /\ flags'.offered = flags.offered /\ flags'.crashed = flags.crashed
    BY <2>1 DEF Flags
  <2>6. /\ flags'.errors = (flags.errors \/ (~Leaving /\ ~flags.ready))
        /\ flags'.recovery = (flags.recovery \/ (~Leaving /\ flags.ready /\ Recovery))
    BY <2>1 DEF Flags
  <2>7. main.at \in {"route failed", "failed"}
    OBVIOUS
  <2> HIDE DEF CleanUp
  <2>8. main'.at = "loop" => main'.failures < RouteFailureLimit
    <3>1. main.failures \in 0 .. RouteFailureLimit
      BY <2>1 DEF Mains
    <3>2. main.failures \in Nat /\ RouteFailureLimit \in Nat \ {0}
      BY <3>1
    <3>3. main.failures < RouteFailureLimit
      BY <1>1, <2>7 DEF Told
    <3>4. CASE main.at = "failed"
      BY <2>4, <3>2, <3>4
    <3>5. CASE main.at = "route failed"
      <4>1. main'.at = "loop" => main.failures + 1 # RouteFailureLimit
        BY <2>3, <3>5
      <4>2. main'.failures = main.failures + 1
        BY <2>4, <3>5
      <4> QED
        BY <3>2, <3>3, <4>1, <4>2
    <3> QED
      BY <2>7, <3>4, <3>5
  <2> QED
    BY <2>2, <2>3, <2>5, <2>6, <2>8
<1>4. CookieOfMain' /\ Told'
  <2>1. ~main.initial /\ UNCHANGED stop
    BY <1>1 DEF CookieOfMain
  <2> HIDE DEF CleanUp
  <2> QED
    BY <1>E, <2>1 DEF CookieOfMain, Told
<1>5. Counted'
  <2>1. UNCHANGED <<pending, sessions>>
    OBVIOUS
  <2> HIDE DEF CleanUp
  <2> QED
    BY <1>1, <1>E, <2>1, CountedFrame
<1>6. Fresh'
  <2>1. UNCHANGED <<pending, sessions, granted, intro>>
    OBVIOUS
  <2> HIDE DEF CleanUp
  <2>2. None \notin pending \cup sessions
    BY <1>1 DEF TypeOK
  <2> QED
    BY <1>1, <1>E, <2>1, <2>2, FreshFrame
<1>7. Owned'
  BY <1>1 DEF Owned, Circuits
<1>8. GrantsAreLive'
  BY <1>1, <1>2 DEF GrantsAreLive, Owned, Fresh, CookieOfMain, TypeOK, Circuits
<1>9. ReadyMeansOffered'
  BY <1>2, <1>E DEF ReadyMeansOffered
<1> QED
  BY <1>3, <1>4, <1>5, <1>6, <1>7, <1>8, <1>9, IInvParts

\* The initial circuit is closed, if it was never offered.
LEMMA FinishStep ==
    ASSUME IInv, Finish
    PROVE  IInv'
<1> USE HostAssumption DEF Finish, Close
<1>1. TypeOK /\ Owned /\ CookieOfMain /\ Counted /\ Fresh /\ Told
  BY DEF IInv, Accounted
<1>2. GrantsAreLive /\ ReadyMeansOffered
  BY DEF IInv
<1>3. TypeOK'
  BY <1>1 DEF TypeOK, Mains, Places, Flags
<1>4. CookieOfMain' /\ Told'
  BY DEF CookieOfMain, Told
<1>5. Counted'
  BY <1>1 DEF Counted
<1>6. Fresh'
  BY <1>1 DEF Fresh, TypeOK
<1>7. Owned'
  BY <1>1 DEF Owned, CookieOfMain, Circuits
<1>8. GrantsAreLive'
  BY <1>1, <1>2 DEF GrantsAreLive, Owned, Fresh, TypeOK, Circuits
<1>9. ReadyMeansOffered'
  BY <1>1 DEF ReadyMeansOffered, Told, Stopping, Leaving
<1> QED
  BY <1>3, <1>4, <1>5, <1>6, <1>7, <1>8, <1>9, IInvParts

\* An introduction arrives: its thread has no grant yet.
LEMMA DeliverStep ==
    ASSUME IInv, NEW i \in Introductions, Deliver(i)
    PROVE  IInv'
<1> USE HostAssumption DEF Deliver
<1>1. TypeOK /\ Owned /\ CookieOfMain /\ Counted /\ Fresh /\ Told
  BY DEF IInv, Accounted
<1>2. GrantsAreLive /\ ReadyMeansOffered
  BY DEF IInv
<1>3. TypeOK'
  <2>1. intro' \in [Introductions -> Threads]
    BY <1>1 DEF TypeOK, Threads
  <2> QED
    BY <1>1, <2>1 DEF TypeOK
<1>E. /\ \A j \in Introductions : intro'[j].grant = intro[j].grant
  BY DEF TypeOK, Mains, Threads, Flags
<1>4. CookieOfMain' /\ Told'
  BY <1>1 DEF CookieOfMain, Told, Stopping, Leaving
<1>5. Counted'
  BY <1>1 DEF Counted, Full
<1>6. Fresh'
  BY <1>1 DEF Fresh
<1>7. Owned'
  BY <1>1 DEF Owned
<1>8. GrantsAreLive'
  <2>1. UNCHANGED <<slot, granted, worker, circuit>>
    OBVIOUS
  <2> QED
    BY <1>2, <1>E, <2>1, GrantsFrame
<1>9. ReadyMeansOffered'
  BY <1>2 DEF ReadyMeansOffered, Stopping, Leaving
<1> QED
  BY <1>3, <1>4, <1>5, <1>6, <1>7, <1>8, <1>9, IInvParts

\* The slot is emptied as its cookie is taken, so no second thread has it.
LEMMA TakeSlotStep ==
    ASSUME IInv, NEW i \in Introductions, TakeSlot(i)
    PROVE  IInv'
<1> USE HostAssumption DEF TakeSlot
<1>1. TypeOK /\ Owned /\ CookieOfMain /\ Counted /\ Fresh /\ Told
  BY DEF IInv, Accounted
<1>2. GrantsAreLive /\ ReadyMeansOffered
  BY DEF IInv
<1>3. TypeOK'
  <2>1. intro' \in [Introductions -> Threads]
    BY <1>1 DEF TypeOK, Threads
  <2> QED
    BY <1>1, <2>1 DEF TypeOK
<1>E. /\ intro'[i].grant = slot
      /\ \A j \in Introductions \ {i} : intro'[j].grant = intro[j].grant
  BY <1>1 DEF TypeOK
<1>4. CookieOfMain' /\ Told'
  BY <1>1 DEF CookieOfMain, Told, Stopping, Leaving
<1>5. Counted'
  BY <1>1 DEF Counted, Full
<1>6. Fresh'
  <2>1. UNCHANGED <<main, pending, sessions, granted>>
    OBVIOUS
  <2>2. main.cookie # slot
    BY <1>1, <1>2 DEF GrantsAreLive, Owned, Fresh, TypeOK
  <2> HIDE DEF TakeSlot
  <2> QED
    BY <1>1, <1>E, <2>1, <2>2 DEF Fresh
<1>7. Owned'
  BY <1>1 DEF Owned
<1>8. GrantsAreLive'
  BY <1>2 DEF GrantsAreLive
<1>9. ReadyMeansOffered'
  BY <1>2 DEF ReadyMeansOffered, Stopping, Leaving
<1> QED
  BY <1>3, <1>4, <1>5, <1>6, <1>7, <1>8, <1>9, IInvParts

\* An introduction is refused.
LEMMA BusyStep ==
    ASSUME IInv, NEW i \in Introductions, Busy(i)
    PROVE  IInv'
<1> USE HostAssumption DEF Busy, Stopping
<1>1. TypeOK /\ Owned /\ CookieOfMain /\ Counted /\ Fresh /\ Told
  BY DEF IInv, Accounted
<1>2. GrantsAreLive /\ ReadyMeansOffered
  BY DEF IInv
<1>3. TypeOK'
  <2>1. intro' \in [Introductions -> Threads]
    BY <1>1 DEF TypeOK, Threads
  <2> QED
    BY <1>1, <2>1 DEF TypeOK
<1>E. /\ \A j \in Introductions : intro'[j].grant = intro[j].grant
  BY DEF TypeOK, Mains, Threads, Flags
<1>4. CookieOfMain' /\ Told'
  BY <1>1 DEF CookieOfMain, Told, Leaving
<1>5. Counted'
  BY <1>1 DEF Counted, Full
<1>6. Fresh'
  BY <1>1 DEF Fresh
<1>7. Owned'
  BY <1>1 DEF Owned
<1>8. GrantsAreLive'
  <2>1. UNCHANGED <<slot, granted, worker, circuit>>
    OBVIOUS
  <2> QED
    BY <1>2, <1>E, <2>1, GrantsFrame
<1>9. ReadyMeansOffered'
  BY <1>2 DEF ReadyMeansOffered, Leaving
<1> QED
  BY <1>3, <1>4, <1>5, <1>6, <1>7, <1>8, <1>9, IInvParts

\* The client has the cookie and the thread no more.
LEMMA SendGrantStep ==
    ASSUME IInv, NEW i \in Introductions, SendGrant(i)
    PROVE  IInv'
<1> USE HostAssumption DEF SendGrant
<1>1. TypeOK /\ Owned /\ CookieOfMain /\ Counted /\ Fresh /\ Told
  BY DEF IInv, Accounted
<1>2. GrantsAreLive /\ ReadyMeansOffered
  BY DEF IInv
<1>3. TypeOK'
  <2>1. intro' \in [Introductions -> Threads]
    BY <1>1 DEF TypeOK, Threads
  <2> QED
    BY <1>1, <2>1 DEF TypeOK
<1>4. CookieOfMain' /\ Told'
  BY <1>1 DEF CookieOfMain, Told, Stopping, Leaving
<1>5. Counted'
  BY <1>1 DEF Counted, Full
<1>6. Fresh'
  BY <1>1 DEF Fresh
<1>7. Owned'
  BY <1>1 DEF Owned
<1>8. GrantsAreLive'
  BY <1>1, <1>2 DEF GrantsAreLive, TypeOK
<1>9. ReadyMeansOffered'
  BY <1>2 DEF ReadyMeansOffered, Stopping, Leaving
<1> QED
  BY <1>3, <1>4, <1>5, <1>6, <1>7, <1>8, <1>9, IInvParts

\* An introduction thread ends and gives up its grant.
LEMMA IntroductionEndsStep ==
    ASSUME IInv, NEW i \in Introductions, IntroductionEnds(i)
    PROVE  IInv'
<1> USE HostAssumption DEF IntroductionEnds, Stopping
<1>1. TypeOK /\ Owned /\ CookieOfMain /\ Counted /\ Fresh /\ Told
  BY DEF IInv, Accounted
<1>2. GrantsAreLive /\ ReadyMeansOffered
  BY DEF IInv
<1>3. TypeOK'
  <2>1. intro' \in [Introductions -> Threads]
    BY <1>1 DEF TypeOK, Threads
  <2> QED
    BY <1>1, <2>1 DEF TypeOK
<1>4. CookieOfMain' /\ Told'
  BY <1>1 DEF CookieOfMain, Told, Leaving
<1>5. Counted'
  BY <1>1 DEF Counted, Full
<1>6. Fresh'
  BY <1>1 DEF Fresh
<1>7. Owned'
  BY <1>1 DEF Owned
<1>8. GrantsAreLive'
  BY <1>2 DEF GrantsAreLive
<1>9. ReadyMeansOffered'
  BY DEF ReadyMeansOffered, Leaving
<1> QED
  BY <1>3, <1>4, <1>5, <1>6, <1>7, <1>8, <1>9, IInvParts

\* An introduction thread fails, gives up its grant and asks for a recovery.
LEMMA IntroductionFailsStep ==
    ASSUME IInv, NEW i \in Introductions, IntroductionFails(i)
    PROVE  IInv'
<1> USE HostAssumption DEF IntroductionFails, Stopping
<1>1. TypeOK /\ Owned /\ CookieOfMain /\ Counted /\ Fresh /\ Told
  BY DEF IInv, Accounted
<1>2. GrantsAreLive /\ ReadyMeansOffered
  BY DEF IInv
<1>3. TypeOK'
  BY <1>1 DEF TypeOK, Threads, Flags
<1>E. /\ intro'[i].grant = None
      /\ \A j \in Introductions \ {i} : intro'[j].grant = intro[j].grant
      /\ flags'.ready = flags.ready /\ flags'.recovery = TRUE /\ flags'.errors = flags.errors
      /\ flags'.offered = flags.offered /\ flags'.crashed = flags.crashed
  BY <1>1 DEF TypeOK, Flags
<1>4. CookieOfMain' /\ Told'
  <2>1. UNCHANGED <<main, stop>>
    OBVIOUS
  <2> HIDE DEF IntroductionFails
  <2> QED
    BY <1>1, <1>E, <2>1 DEF CookieOfMain, Told, Leaving
<1>5. Counted'
  BY <1>1 DEF Counted, Full
<1>6. Fresh'
  BY <1>1 DEF Fresh
<1>7. Owned'
  BY <1>1 DEF Owned
<1>8. GrantsAreLive'
  BY <1>2 DEF GrantsAreLive
<1>9. ReadyMeansOffered'
  BY DEF ReadyMeansOffered, Leaving
<1> QED
  BY <1>3, <1>4, <1>5, <1>6, <1>7, <1>8, <1>9, IInvParts

\* The slot is emptied as the handshakes are closed.
LEMMA RequestRecoveryStep ==
    ASSUME IInv, RequestRecovery
    PROVE  IInv'
<1> USE HostAssumption DEF RequestRecovery, Close, Some
<1>1. TypeOK /\ Owned /\ CookieOfMain /\ Counted /\ Fresh /\ Told
  BY DEF IInv, Accounted
<1>2. GrantsAreLive /\ ReadyMeansOffered
  BY DEF IInv
<1>3. TypeOK'
  <2>2. main' \in Mains
    BY <1>1 DEF TypeOK, Mains, Places
  <2>3. intro' \in [Introductions -> Threads]
    BY <1>1 DEF TypeOK, Threads
  <2> QED
    BY <1>1, <2>2, <2>3 DEF TypeOK
<1>E. /\ main'.cookie = main.cookie /\ main'.initial = main.initial
      /\ main'.failures = main.failures
      /\ main' = main \/ (main.at = "recover" /\ main'.at = "leave")
      /\ \A j \in Introductions : intro'[j].grant = intro[j].grant
  <2>1. CASE main.at = "recover" /\ main' = [main EXCEPT !.at = "leave"] /\ UNCHANGED intro
    BY <2>1
  <2>2. CASE /\ UNCHANGED main
             /\ \E i \in Introductions : intro[i].at = "recover" /\ intro' = [intro EXCEPT ![i].at = "done"]
    <3>1. PICK i \in Introductions : intro' = [intro EXCEPT ![i].at = "done"]
      BY <2>2
    <3>2. \A j \in Introductions : intro'[j].grant = intro[j].grant
      BY <3>1
    <3> QED
      BY <2>2, <3>2
  <2> QED
    BY <2>1, <2>2
<1>4. CookieOfMain' /\ Told'
  <2>1. UNCHANGED <<stop, flags>>
    OBVIOUS
  <2> HIDE DEF RequestRecovery
  <2>2. CookieOfMain'
    BY <1>1, <1>E DEF CookieOfMain
  <2>3. Told'
    <3>1. CASE main' = main
      <4>1. stop' = stop /\ flags' = flags
        BY <2>1
      <4> QED
        BY <1>1, <3>1, <4>1 DEF Told, Leaving, Stopping
    <3>2. CASE main.at = "recover" /\ main'.at = "leave"
      BY <1>1, <2>1, <3>2 DEF Told, Leaving
    <3> QED
      BY <1>E, <3>1, <3>2
  <2> QED
    BY <2>2, <2>3
<1>5. Counted'
  <2>1. UNCHANGED <<pending, sessions>>
    OBVIOUS
  <2> HIDE DEF RequestRecovery
  <2> QED
    BY <1>1, <1>E, <2>1, CountedFrame
<1>6. Fresh'
  <2>1. UNCHANGED <<pending, sessions, granted>>
    OBVIOUS
  <2> HIDE DEF RequestRecovery
  <2>2. None \notin pending \cup sessions
    BY <1>1 DEF TypeOK
  <2> QED
    BY <1>1, <1>E, <2>1, <2>2, FreshFrame
<1>7. Owned'
  <2>1. /\ UNCHANGED <<listed, pending, sessions, worker>>
        /\ \A x \in Circuits : circuit'[x] = "open" => circuit[x] = "open"
    OBVIOUS
  <2> HIDE DEF RequestRecovery
  <2> QED
    BY <1>1, <1>E, <2>1, OwnedFrame
<1>8. GrantsAreLive'
  <2>1. slot' = None /\ UNCHANGED granted
    OBVIOUS
  <2> HIDE DEF RequestRecovery
  <2> QED
    BY <1>2, <1>E, <2>1 DEF GrantsAreLive
<1>9. ReadyMeansOffered'
  BY <1>2 DEF ReadyMeansOffered, Stopping, Leaving
<1> QED
  BY <1>3, <1>4, <1>5, <1>6, <1>7, <1>8, <1>9, IInvParts

\* A session takes the place of a handshake, so nothing more is counted.
LEMMA HandshakeDoneStep ==
    ASSUME IInv, NEW c \in Cookies, HandshakeDone(c)
    PROVE  IInv'
<1> USE HostAssumption DEF HandshakeDone, Leaving, Stopping, SlotWithout
<1>1. TypeOK /\ Owned /\ CookieOfMain /\ Counted /\ Fresh /\ Told
  BY DEF IInv, Accounted
<1>2. GrantsAreLive /\ ReadyMeansOffered
  BY DEF IInv
<1>3. TypeOK'
  BY <1>1 DEF TypeOK
<1>4. CookieOfMain' /\ Told'
  BY <1>1 DEF CookieOfMain, Told
<1>5. Counted'
  <2>1. c \in pending /\ c \notin sessions /\ pending' = pending \ {c} /\ sessions' = sessions \cup {c}
    BY <1>1 DEF Owned
  <2>2. UNCHANGED main
    OBVIOUS
  <2> HIDE DEF HandshakeDone
  <2>3. IsFiniteSet(pending') /\ Cardinality(pending') = Cardinality(pending) - 1
    BY <1>1, <2>1, FS_RemoveElement DEF Counted
  <2>4. IsFiniteSet(sessions') /\ Cardinality(sessions') = Cardinality(sessions) + 1
    BY <1>1, <2>1, FS_AddElement DEF Counted
  <2>5. Cardinality(pending) \in Nat /\ Cardinality(sessions) \in Nat
    BY <1>1, FS_CardinalityType DEF Counted
  <2> QED
    BY <1>1, <2>2, <2>3, <2>4, <2>5 DEF Counted, Full
<1>6. Fresh'
  BY <1>1 DEF Fresh
<1>7. Owned'
  BY <1>1 DEF Owned, TypeOK
<1>8. GrantsAreLive'
  BY <1>2 DEF GrantsAreLive
<1>9. ReadyMeansOffered'
  BY <1>2 DEF ReadyMeansOffered
<1> QED
  BY <1>3, <1>4, <1>5, <1>6, <1>7, <1>8, <1>9, IInvParts

\* A handshake that fails takes its cookie out of the slot.
LEMMA HandshakeFailsStep ==
    ASSUME IInv, NEW c \in Cookies, HandshakeFails(c)
    PROVE  IInv'
<1> USE HostAssumption DEF HandshakeFails, SlotWithout
<1>1. TypeOK /\ Owned /\ CookieOfMain /\ Counted /\ Fresh /\ Told
  BY DEF IInv, Accounted
<1>2. GrantsAreLive /\ ReadyMeansOffered
  BY DEF IInv
<1>3. TypeOK'
  BY <1>1 DEF TypeOK
<1>4. CookieOfMain' /\ Told'
  BY <1>1 DEF CookieOfMain, Told, Stopping, Leaving
<1>5. Counted'
  BY <1>1 DEF Counted, Full
<1>6. Fresh'
  BY <1>1 DEF Fresh
<1>7. Owned'
  BY <1>1 DEF Owned
<1>8. GrantsAreLive'
  BY <1>2 DEF GrantsAreLive
<1>9. ReadyMeansOffered'
  BY <1>2 DEF ReadyMeansOffered, Stopping, Leaving
<1> QED
  BY <1>3, <1>4, <1>5, <1>6, <1>7, <1>8, <1>9, IInvParts

\* A failed handshake closes its circuit and gives its room back.
LEMMA WorkerEndsStep ==
    ASSUME IInv, NEW c \in Cookies, WorkerEnds(c)
    PROVE  IInv'
<1> USE HostAssumption DEF WorkerEnds, Close
<1>1. TypeOK /\ Owned /\ CookieOfMain /\ Counted /\ Fresh /\ Told
  BY DEF IInv, Accounted
<1>2. GrantsAreLive /\ ReadyMeansOffered
  BY DEF IInv
<1>3. TypeOK'
  BY <1>1 DEF TypeOK
<1>4. CookieOfMain' /\ Told'
  BY <1>1 DEF CookieOfMain, Told, Stopping, Leaving
<1>5. Counted'
  <2>1. c \in pending /\ pending' = pending \ {c} /\ UNCHANGED sessions
    BY <1>1 DEF Owned
  <2> HIDE DEF WorkerEnds
  <2>3. IsFiniteSet(pending') /\ Cardinality(pending') = Cardinality(pending) - 1
    BY <1>1, <2>1, FS_RemoveElement DEF Counted
  <2>4. Cardinality(pending) \in Nat /\ Cardinality(sessions) \in Nat
    BY <1>1, FS_CardinalityType DEF Counted
  <2> QED
    BY <1>1, <2>1, <2>3, <2>4 DEF Counted, Full
<1>6. Fresh'
  BY <1>1 DEF Fresh
<1>7. Owned'
  BY <1>1 DEF Owned, TypeOK, Circuits
<1>8. GrantsAreLive'
  BY <1>1, <1>2 DEF GrantsAreLive, TypeOK, Circuits
<1>9. ReadyMeansOffered'
  BY <1>2 DEF ReadyMeansOffered, Stopping, Leaving
<1> QED
  BY <1>3, <1>4, <1>5, <1>6, <1>7, <1>8, <1>9, IInvParts

\* A session closes its circuit and gives its room back.
LEMMA SessionEndsStep ==
    ASSUME IInv, NEW c \in Cookies, SessionEnds(c)
    PROVE  IInv'
<1> USE HostAssumption DEF SessionEnds, Close
<1>1. TypeOK /\ Owned /\ CookieOfMain /\ Counted /\ Fresh /\ Told
  BY DEF IInv, Accounted
<1>2. GrantsAreLive /\ ReadyMeansOffered
  BY DEF IInv
<1>3. TypeOK'
  BY <1>1 DEF TypeOK
<1>4. CookieOfMain' /\ Told'
  BY <1>1 DEF CookieOfMain, Told, Stopping, Leaving
<1>5. Counted'
  <2>1. c \in sessions /\ sessions' = sessions \ {c} /\ UNCHANGED pending
    OBVIOUS
  <2> HIDE DEF SessionEnds
  <2>3. IsFiniteSet(sessions') /\ Cardinality(sessions') = Cardinality(sessions) - 1
    BY <1>1, <2>1, FS_RemoveElement DEF Counted
  <2>4. Cardinality(pending) \in Nat /\ Cardinality(sessions) \in Nat
    BY <1>1, FS_CardinalityType DEF Counted
  <2> QED
    BY <1>1, <2>1, <2>3, <2>4 DEF Counted, Full
<1>6. Fresh'
  BY <1>1 DEF Fresh
<1>7. Owned'
  BY <1>1 DEF Owned, Circuits
<1>8. GrantsAreLive'
  BY <1>1, <1>2 DEF GrantsAreLive, Owned, TypeOK, Circuits
<1>9. ReadyMeansOffered'
  BY <1>2 DEF ReadyMeansOffered, Stopping, Leaving
<1> QED
  BY <1>3, <1>4, <1>5, <1>6, <1>7, <1>8, <1>9, IInvParts

\* The stop event is set: whoever looks at it from here on knows.
LEMMA AskToStopStep ==
    ASSUME IInv, AskToStop
    PROVE  IInv'
<1> USE HostAssumption DEF AskToStop
<1>1. TypeOK /\ Owned /\ CookieOfMain /\ Counted /\ Fresh /\ Told
  BY DEF IInv, Accounted
<1>2. GrantsAreLive /\ ReadyMeansOffered
  BY DEF IInv
<1>3. TypeOK'
  BY <1>1 DEF TypeOK
<1>4. CookieOfMain' /\ Told'
  BY <1>1 DEF CookieOfMain, Told, Stopping, Leaving
<1>5. Counted'
  BY <1>1 DEF Counted, Full
<1>6. Fresh'
  BY <1>1 DEF Fresh
<1>7. Owned'
  BY <1>1 DEF Owned
<1>8. GrantsAreLive'
  BY <1>2 DEF GrantsAreLive
<1>9. ReadyMeansOffered'
  BY DEF ReadyMeansOffered, Stopping, Leaving
<1> QED
  BY <1>3, <1>4, <1>5, <1>6, <1>7, <1>8, <1>9, IInvParts

\* The slot is emptied as the circuits are closed.
LEMMA StopStep ==
    ASSUME IInv, Stop
    PROVE  IInv'
<1> USE HostAssumption DEF Stop, Close, Some
<1>1. TypeOK /\ Owned /\ CookieOfMain /\ Counted /\ Fresh /\ Told
  BY DEF IInv, Accounted
<1>2. GrantsAreLive /\ ReadyMeansOffered
  BY DEF IInv
<1>3. TypeOK'
  BY <1>1 DEF TypeOK
<1>4. CookieOfMain' /\ Told'
  BY <1>1 DEF CookieOfMain, Told, Stopping, Leaving
<1>5. Counted'
  BY <1>1 DEF Counted, Full
<1>6. Fresh'
  BY <1>1 DEF Fresh
<1>7. Owned'
  BY <1>1 DEF Owned, Circuits
<1>8. GrantsAreLive'
  BY <1>2 DEF GrantsAreLive
<1>9. ReadyMeansOffered'
  BY DEF ReadyMeansOffered, Stopping, Leaving
<1> QED
  BY <1>3, <1>4, <1>5, <1>6, <1>7, <1>8, <1>9, IInvParts

-----------------------------------------------------------------------------
(* The theorems                                                            *)

\* Init: no circuit, no cookie, nothing counted.
THEOREM InitIInv == Init => IInv
<1> SUFFICES ASSUME Init PROVE IInv
  OBVIOUS
<1> USE HostAssumption DEF Init
<1>1. TypeOK
  <2>1. intro \in [Introductions -> Threads] /\ worker \in [Cookies -> {"none", "handshake", "failing"}]
    BY DEF Threads
  <2>2. main \in Mains
    BY DEF Mains, Places
  <2>3. flags \in Flags
    BY DEF Flags
  <2> QED
    BY <2>1, <2>2, <2>3 DEF TypeOK
<1>2. Owned
  BY DEF Owned, Circuits
<1>3. Cardinality({}) = 0 /\ IsFiniteSet({}) /\ {} \cup {} = {}
  BY FS_EmptySet
<1>4. Accounted
  BY <1>1, <1>2, <1>3 DEF Accounted
<1>5. Counted
  BY <1>3 DEF Counted
<1>6. CookieOfMain /\ Fresh /\ Told
  BY DEF CookieOfMain, Fresh, Told
<1>7. GrantsAreLive /\ ReadyMeansOffered
  BY DEF GrantsAreLive, ReadyMeansOffered
<1> QED
  BY <1>4, <1>5, <1>6, <1>7 DEF IInv

\* Every step of every thread keeps the invariant.
THEOREM NextIInv == IInv /\ [Next]_vars => IInv'
<1> SUFFICES ASSUME IInv, [Next]_vars PROVE IInv'
  OBVIOUS
<1>1. CASE MainStep
  BY <1>1, BuildStep, BuildFailsStep, BuildThreadFailsStep, OfferThreadFailsStep, PublishInitialStep, RegisterIntroductionsStep,
     IntroductionThreadFailsStep, BeginOfferStep, LeaveLoopStep, OpenRendezvousStep,
     RouteFailsStep, CommitStep, CommitFailsStep, CleanUpStep, FinishStep, RegistrationFailsStep DEF MainStep
<1>2. CASE LoopExpires \/ RequestRecovery \/ AskToStop \/ Stop
  BY <1>2, LoopExpiresStep, RequestRecoveryStep, AskToStopStep, StopStep
<1>3. CASE \E i \in Introductions : Deliver(i) \/ IntroductionStep(i)
  BY <1>3, DeliverStep, TakeSlotStep, BusyStep, SendGrantStep, IntroductionEndsStep,
     IntroductionFailsStep DEF IntroductionStep
<1>4. CASE \E c \in Cookies : WorkerStep(c) \/ SessionEnds(c)
  BY <1>4, HandshakeDoneStep, HandshakeFailsStep, WorkerEndsStep, SessionEndsStep DEF WorkerStep
<1>5. CASE UNCHANGED vars
  <2>1. UNCHANGED <<circuit, main, listed, published, slot, pending, sessions, worker,
                    intro, granted, stop, flags>>
    BY <1>5 DEF vars
  <2>2. Accounted'
    BY <2>1 DEF IInv, Accounted, TypeOK, Owned
  <2>3. GrantsAreLive' /\ Fresh'
    BY <2>1 DEF IInv, GrantsAreLive, Fresh
  <2>4. ReadyMeansOffered' /\ Told'
    BY <2>1 DEF IInv, ReadyMeansOffered, Told, Leaving, Stopping
  <2>5. CookieOfMain' /\ Counted'
    BY <2>1 DEF IInv, CookieOfMain, Counted, Full
  <2> QED
    BY <2>2, <2>3, <2>4, <2>5 DEF IInv
<1> QED
  BY <1>1, <1>2, <1>3, <1>4, <1>5 DEF Next

\* The invariant holds in every behaviour.
THEOREM AlwaysIInv == Spec => []IInv
  BY InitIInv, NextIInv, PTL DEF Spec

\* _rendezvous_limit and the circuits of _run(), _serve_rendezvous() and stop():
\* handshakes and sessions never exceed the limit together, and each open circuit
\* has a thread or a list that answers for it.
THEOREM AlwaysAccounted == Spec => []Accounted
<1>1. IInv => Accounted
  BY DEF IInv
<1> QED
  BY <1>1, AlwaysIInv, PTL

\* _grant_slot and _answer_introductions(): a cookie in the slot is good for a
\* client, and no two clients are given the same one.
THEOREM AlwaysGrantsAreLive == Spec => []GrantsAreLive
<1>1. IInv => GrantsAreLive
  BY DEF IInv
<1> QED
  BY <1>1, AlwaysIInv, PTL

\* wait_ready(): without an error it returns when a cookie was offered, or when the
\* main thread died because a thread could not be started, and has ended.
THEOREM AlwaysReadyMeansOffered == Spec => []ReadyMeansOffered
<1>1. IInv => ReadyMeansOffered
  BY DEF IInv
<1> QED
  BY <1>1, AlwaysIInv, PTL
=============================================================================
