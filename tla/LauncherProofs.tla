-------------------------- MODULE LauncherProofs --------------------------
(***************************************************************************)
(* Launcher.tla for any number of builds and settings.                     *)
(*                                                                         *)
(* ServerReachable is not inductive: that a shim which starts to serve, or *)
(* stops, takes no other shim's socket away follows from there being one   *)
(* shim past its claim, which is what holding the store's lock means.      *)
(***************************************************************************)
EXTENDS Launcher, TLAPS

USE SettingsAssumption

\* From its claim to its end a shim holds the lock.
ClaimHoldsLock ==
  \A s \in Build :
    shim[s] \in {"claimed", "serving", "mute", "leaving", "stopping"} => lock = s

ReachableInv == TypeOK /\ ClaimHoldsLock /\ ServerReachable

OwnInv == TypeOK /\ OwnSettings

-----------------------------------------------------------------------------
(* Types.                                                                  *)

LEMMA TypeInit == Init => TypeOK
BY DEF Init, TypeOK, BuildSteps, ShimSteps

\* What it takes for a request to be answered.
LEMMA AnswersType ==
  ASSUME TypeOK, Answers(socket)
  PROVE  socket \in Build /\ shim[socket] \in {"serving", "leaving"}
BY DEF TypeOK, Answers

LEMMA AskedKeepsType ==
  ASSUME TypeOK, NEW c \in Build, NEW s \in Build, Asked(c, s)
  PROVE  /\ pc' \in [Build -> BuildSteps]
         /\ registered' \in [Build -> SUBSET Build]
         /\ uses' \in [Build -> Build \cup {None}]
BY DEF TypeOK, Asked, BuildSteps

LEMMA DieKeepsType ==
  ASSUME TypeOK, NEW s \in Build, Die(s)
  PROVE  shim' \in [Build -> ShimSteps] /\ lock' \in Build \cup {None}
BY DEF TypeOK, Die, ShimSteps

LEMMA TypeBuildStep ==
  ASSUME TypeOK, NEW c \in Build, BuildStep(c)
  PROVE  TypeOK'
<1>1. CASE Begin(c) \/ Start(c) \/ Check(c) \/ End(c)
  BY <1>1 DEF Begin, Start, Check, End, TypeOK, BuildSteps, ShimSteps
<1>2. CASE Ask(c) \/ Poll(c) \/ AskLast(c)
  <2>1. CASE Answers(socket)
    <3>1. socket \in Build
      BY <2>1, AnswersType
    <3>2. Asked(c, socket) /\ UNCHANGED <<shim, lock, socket>>
      BY <1>2, <2>1 DEF Ask, Poll, AskLast
    <3>3. QED
      BY <3>1, <3>2, AskedKeepsType DEF TypeOK
  <2>2. CASE ~Answers(socket)
    BY <1>2, <2>2 DEF Ask, Poll, AskLast, TypeOK, BuildSteps
  <2>3. QED
    BY <2>1, <2>2
<1>3. CASE TimeOut(c)
  <2>1. pc' \in [Build -> BuildSteps]
    BY <1>3 DEF TimeOut, TypeOK, BuildSteps
  <2>2. QED
    BY <1>3, <2>1, DieKeepsType DEF TimeOut, TypeOK
<1>4. QED
  BY <1>1, <1>2, <1>3 DEF BuildStep

LEMMA TypeShimStep ==
  ASSUME TypeOK, NEW s \in Build, ShimStep(s)
  PROVE  TypeOK'
<1>1. CASE Claim(s) \/ Listen(s) \/ Unlisten(s)
  BY <1>1 DEF Claim, Listen, Unlisten, TypeOK, ShimSteps
<1>2. CASE IdleOut(s)
  BY <1>2 DEF IdleOut, TypeOK, ShimSteps
<1>3. CASE Refuse(s) \/ Exit(s) \/ Kill(s)
  BY <1>3, DieKeepsType DEF Refuse, Exit, Kill, TypeOK
<1>4. QED
  BY <1>1, <1>2, <1>3 DEF ShimStep

LEMMA TypeNext == TypeOK /\ [Next]_vars => TypeOK'
<1> SUFFICES ASSUME TypeOK, [Next]_vars PROVE TypeOK'
  OBVIOUS
<1>1. CASE Next
  BY <1>1, TypeBuildStep, TypeShimStep DEF Next
<1>2. CASE UNCHANGED vars
  BY <1>2 DEF vars, TypeOK
<1>3. QED
  BY <1>1, <1>2

\* Every reachable state has the type the module gives it, whatever builds
\* there are: the steps of ensure, start and main are the listed ones.
THEOREM TypeCorrect == Spec => []TypeOK
BY TypeInit, TypeNext, PTL DEF Spec

-----------------------------------------------------------------------------
(* The lock and the socket.                                                *)

\* A build changes no shim but its own, which it starts or gives up on, and
\* never the socket.
LEMMA ReachableBuildStep ==
  ASSUME ReachableInv, NEW c \in Build, BuildStep(c)
  PROVE  ClaimHoldsLock' /\ ServerReachable'
<1> USE DEF ReachableInv
<1>1. CASE Start(c)
  BY <1>1 DEF Start, TypeOK, ClaimHoldsLock, ServerReachable
<1>2. CASE TimeOut(c)
  BY <1>2 DEF TimeOut, Die, TypeOK, ClaimHoldsLock, ServerReachable
<1>3. CASE ~Start(c) /\ ~TimeOut(c)
  <2>1. UNCHANGED <<shim, lock, socket>>
    BY <1>3 DEF BuildStep, Begin, Ask, Poll, Check, AskLast, End
  <2>2. QED
    BY <2>1 DEF ClaimHoldsLock, ServerReachable
<1>4. QED
  BY <1>1, <1>2, <1>3

LEMMA ReachableShimStep ==
  ASSUME ReachableInv, NEW s \in Build, ShimStep(s)
  PROVE  ClaimHoldsLock' /\ ServerReachable'
<1> USE DEF ReachableInv
<1>1. CASE Claim(s)
  BY <1>1 DEF Claim, TypeOK, ClaimHoldsLock, ServerReachable
<1>2. CASE Refuse(s) \/ Exit(s) \/ Kill(s)
  BY <1>2 DEF Refuse, Exit, Kill, Die, TypeOK, ClaimHoldsLock, ServerReachable
<1>3. CASE Listen(s)
  <2>1. \A r \in Build \ {s} : shim[r] # "serving"
    BY <1>3 DEF Listen, ClaimHoldsLock
  <2>2. QED
    BY <1>3, <2>1 DEF Listen, TypeOK, ClaimHoldsLock, ServerReachable
<1>4. CASE IdleOut(s)
  BY <1>4 DEF IdleOut, TypeOK, ClaimHoldsLock, ServerReachable
<1>5. CASE Unlisten(s)
  <2>1. \A r \in Build \ {s} : shim[r] # "serving"
    BY <1>5 DEF Unlisten, ClaimHoldsLock
  <2>2. QED
    BY <1>5, <2>1 DEF Unlisten, TypeOK, ClaimHoldsLock, ServerReachable
<1>6. QED
  BY <1>1, <1>2, <1>3, <1>4, <1>5 DEF ShimStep

LEMMA ReachableNext == ReachableInv /\ [Next]_vars => ReachableInv'
<1> SUFFICES ASSUME ReachableInv, [Next]_vars PROVE ReachableInv'
  OBVIOUS
<1>1. TypeOK'
  BY TypeNext DEF ReachableInv
<1>2. CASE Next
  BY <1>1, <1>2, ReachableBuildStep, ReachableShimStep DEF Next, ReachableInv
<1>3. CASE UNCHANGED vars
  BY <1>1, <1>3 DEF vars, ReachableInv, ClaimHoldsLock, ServerReachable
<1>4. QED
  BY <1>2, <1>3

\* Whoever serves the store holds its lock and is at its socket path, however
\* many builds start, time out, kill and lose shims.
THEOREM Reachable == Spec => []ServerReachable
<1>1. Init => ReachableInv
  BY TypeInit DEF Init, ReachableInv, ClaimHoldsLock, ServerReachable
<1>2. ReachableInv => ServerReachable
  BY DEF ReachableInv
<1>3. QED
  BY <1>1, <1>2, ReachableNext, PTL DEF Spec

-----------------------------------------------------------------------------
(* Whose settings a build goes on with.                                    *)

\* Being answered is the one way to start running.
LEMMA OwnAsked ==
  ASSUME OwnInv, NEW c \in Build, NEW s \in Build, shim[s] # "off",
         Asked(c, s), UNCHANGED shim
  PROVE  OwnSettings'
BY DEF OwnInv, TypeOK, OwnSettings, Asked

LEMMA OwnBuildStep ==
  ASSUME OwnInv, NEW c \in Build, BuildStep(c)
  PROVE  OwnSettings'
<1> USE DEF OwnInv
<1>1. CASE Begin(c) \/ Check(c) \/ End(c)
  BY <1>1 DEF Begin, Check, End, TypeOK, OwnSettings
<1>2. CASE Ask(c) \/ Poll(c) \/ AskLast(c)
  <2>1. CASE Answers(socket)
    <3>1. socket \in Build /\ shim[socket] # "off"
      BY <2>1, AnswersType
    <3>2. Asked(c, socket) /\ UNCHANGED shim
      BY <1>2, <2>1 DEF Ask, Poll, AskLast
    <3>3. QED
      BY <3>1, <3>2, OwnAsked
  <2>2. CASE ~Answers(socket)
    BY <1>2, <2>2 DEF Ask, Poll, AskLast, TypeOK, OwnSettings
  <2>3. QED
    BY <2>1, <2>2
<1>3. CASE Start(c)
  BY <1>3 DEF Start, TypeOK, OwnSettings
<1>4. CASE TimeOut(c)
  BY <1>4 DEF TimeOut, Die, TypeOK, OwnSettings
<1>5. QED
  BY <1>1, <1>2, <1>3, <1>4 DEF BuildStep

\* No step of a shim undoes that it was started, and none is a build's.
LEMMA OwnShimStep ==
  ASSUME OwnInv, NEW s \in Build, ShimStep(s)
  PROVE  OwnSettings'
<1>1. UNCHANGED <<pc, uses>>
  BY DEF ShimStep, Claim, Refuse, Listen, IdleOut, Unlisten, Exit, Kill
<1>2. \A r \in Build : shim[r] # "off" => shim'[r] # "off"
  BY DEF OwnInv, TypeOK, ShimStep, Claim, Refuse, Listen, IdleOut, Unlisten,
         Exit, Kill, Die
<1>3. \A c \in Build : uses[c] \in Build \cup {None}
  BY DEF OwnInv, TypeOK
<1>4. QED
  BY <1>1, <1>2, <1>3 DEF OwnInv, OwnSettings

LEMMA OwnNext == OwnInv /\ [Next]_vars => OwnInv'
<1> SUFFICES ASSUME OwnInv, [Next]_vars PROVE OwnInv'
  OBVIOUS
<1>1. TypeOK'
  BY TypeNext DEF OwnInv
<1>2. CASE Next
  BY <1>1, <1>2, OwnBuildStep, OwnShimStep DEF Next, OwnInv
<1>3. CASE UNCHANGED vars
  BY <1>1, <1>3 DEF vars, OwnInv, OwnSettings
<1>4. QED
  BY <1>2, <1>3

\* A build only ever goes on with a shim started with its own settings, for
\* any assignment of settings to builds (cache_shim.ask compares the command
\* line of the shim that answers).
THEOREM Own == Spec => []OwnSettings
<1>1. Init => OwnInv
  BY TypeInit DEF Init, OwnInv, OwnSettings
<1>2. OwnInv => OwnSettings
  BY DEF OwnInv
<1>3. QED
  BY <1>1, <1>2, OwnNext, PTL DEF Spec
=============================================================================
