--------------------------- MODULE AccountsProofs ---------------------------
(***************************************************************************)
(* Proofs about Accounts, for any number of requests, users and keys.      *)
(*                                                                         *)
(* The argument rests on Apart: a key that a request or the bootstrap has  *)
(* generated is in no row, in no other request and not among the spent     *)
(* keys until it is committed, and ADMIN_API_KEY is only in the row of an  *)
(* administrator, of whom there is none when the bootstrap inserts one.    *)
(***************************************************************************)
EXTENDS Accounts, TLAPS

Holds(r) == key[r] # NoKey

Apart ==
  /\ spent \subseteq minted
  /\ \A u \in Users : Exists(u) =>
       /\ lookup[u] \in minted
       /\ lookup[u] \notin spent \/ lookup[u] = ConfiguredKey
       /\ lookup[u] = ConfiguredKey => role[u] = "admin"
       /\ \A v \in Users : Exists(v) /\ lookup[u] = lookup[v] => u = v
  /\ \A r \in Requests : Holds(r) =>
       /\ key[r] \in minted \ {ConfiguredKey}
       /\ \A q \in Requests : key[q] = key[r] => q = r
       /\ pc[r] = "commit" =>
            key[r] \notin spent /\ \A u \in Users : lookup[u] # key[r]

\* What the bootstrap script has seen and done still holds.
BootAdmin ==
  /\ phase = "create" => ~AdminExists
  /\ phase = "print" => AdminExists

Inv == TypeOK /\ Apart /\ OneAdmin /\ BootAdmin

LEMMA InitInv == Init => Inv /\ KeyKnown
<1> SUFFICES ASSUME Init PROVE Inv /\ KeyKnown
  OBVIOUS
<1> USE KeyAssumption, UserAssumption
    DEF Init, Exists, Steps, Answers, Rotations
<1>1. TypeOK
  BY DEF TypeOK, RowsTypeOK, ProcessTypeOK, Coherent
<1>2. Apart /\ OneAdmin /\ BootAdmin /\ KeyKnown
  BY DEF Apart, OneAdmin, BootAdmin, AdminExists, Holds, KeyKnown
<1>3. QED
  BY <1>1, <1>2 DEF Inv

\* Sending an answer leaves a well-typed slot, whichever handler sends it.
LEMMA AnswerType ==
  ASSUME TypeOK, RowsTypeOK', UNCHANGED process,
         NEW r \in Requests, NEW s \in Answers, Answer(r, s)
  PROVE  TypeOK'
BY DEF Answer, Goto, TypeOK, RowsTypeOK, ProcessTypeOK, Coherent, Answers, Steps, process

LEMMA NextType == TypeOK /\ [Next]_vars => TypeOK'
<1> SUFFICES ASSUME TypeOK, [Next]_vars PROVE TypeOK'
  OBVIOUS
<1> USE KeyAssumption, UserAssumption
    DEF TypeOK, RowsTypeOK, ProcessTypeOK, Coherent, Exists, Steps, Answers, Rotations,
        rows, told, process, request, Goto, Store, Insert, Fresh
<1>1. CASE CheckAdmin
  BY <1>1 DEF CheckAdmin
<1>2. ASSUME NEW u \in Users, NEW k \in Keys, CreateAdmin(u, k) PROVE TypeOK'
  BY <1>2 DEF CreateAdmin
<1>3. CASE PrintKey
  BY <1>3 DEF PrintKey
<1>4. CASE Crash
  <2>1. RowsTypeOK'
    BY <1>4 DEF Crash
  <2>2. ProcessTypeOK'
    BY <1>4 DEF Crash
  <2>3. \A r \in Requests : Coherent(r)'
    BY <1>4 DEF Crash
  <2>4. QED
    BY <2>1, <2>2, <2>3
<1>5. ASSUME NEW r \in Requests, Arrive(r) PROVE TypeOK'
  <2>1. ASSUME NEW c \in Users, NEW u \in Users, RotateKey(r, c, u) PROVE TypeOK'
    <3>1. PICK o \in Rotations : Start(r, o, u, "select")
      BY <2>1 DEF RotateKey
    <3>2. UNCHANGED <<minted, key>>
      BY <2>1 DEF RotateKey
    <3>3. QED
      BY <3>1, <3>2 DEF Start
  <2>2. ASSUME NEW c \in Users, NEW u \in Users, DeleteUser(r, c, u) PROVE TypeOK'
    BY <2>2 DEF DeleteUser, Start
  <2>3. ASSUME NEW c \in Users, NEW k \in Keys, CreateUser(r, c, k) PROVE TypeOK'
    BY <2>3 DEF CreateUser, Start, Draw
  <2>4. QED
    BY <1>5, <2>1, <2>2, <2>3 DEF Arrive
<1>6. ASSUME NEW r \in Requests, Handle(r) PROVE TypeOK'
  <2>1. CASE GetUser(r)
    <3>1. CASE Exists(subject[r])
      BY <2>1, <3>1 DEF GetUser
    <3>2. CASE ~Exists(subject[r])
      <4>1. RowsTypeOK' /\ UNCHANGED process /\ \E s \in Answers : Answer(r, s)
        BY <2>1, <3>2 DEF GetUser
      <4>2. QED
        BY <4>1, AnswerType
    <3>3. QED
      BY <3>1, <3>2
  <2>2. CASE SelectUser(r)
    <3>1. CASE Exists(subject[r]) /\ op[r] = "delete"
      BY <2>2, <3>1 DEF SelectUser
    <3>2. CASE Exists(subject[r]) /\ op[r] # "delete"
      <4>1. PICK k \in Keys : Draw(r, k)
        BY <2>2, <3>2 DEF SelectUser
      <4>2. /\ pc[r] = "select" /\ op[r] \in Rotations
            /\ pc' = [pc EXCEPT ![r] = "commit"]
            /\ UNCHANGED <<rows, told, process, op, subject>>
        BY <2>2, <3>2 DEF SelectUser
      <4>3. RowsTypeOK' /\ ProcessTypeOK'
        BY <4>1, <4>2 DEF Draw
      <4>4. \A q \in Requests : Coherent(q)'
        BY <4>1, <4>2 DEF Draw
      <4>5. QED
        BY <4>3, <4>4
    <3>3. CASE ~Exists(subject[r])
      <4>1. RowsTypeOK' /\ UNCHANGED process /\ \E s \in Answers : Answer(r, s)
        BY <2>2, <3>3 DEF SelectUser, Missing, Reported
      <4>2. QED
        BY <4>1, AnswerType
    <3>4. QED
      BY <3>1, <3>2, <3>3
  <2>3. CASE CommitRotate(r)
    <3>1. CASE Exists(subject[r])
      <4>1. key[r] # NoKey /\ subject[r] \in Users
        BY <2>3 DEF CommitRotate
      <4>2. RowsTypeOK'
        <5>1. key[r] \in Keys /\ lookup[subject[r]] \in Keys
          BY <3>1, <4>1
        <5>2. /\ lookup' = [lookup EXCEPT ![subject[r]] = key[r]]
              /\ hash' = [hash EXCEPT ![subject[r]] = key[r]]
              /\ spent' = spent \cup {lookup[subject[r]]}
              /\ UNCHANGED <<role, minted, known, lost>>
          BY <2>3, <3>1 DEF CommitRotate
        <5>3. QED
          BY <3>1, <4>1, <5>1, <5>2
      <4>3. ProcessTypeOK' /\ \A q \in Requests : Coherent(q)'
        BY <2>3, <3>1 DEF CommitRotate
      <4>4. QED
        BY <4>2, <4>3
    <3>2. CASE ~Exists(subject[r])
      <4>1. RowsTypeOK' /\ UNCHANGED process /\ \E s \in Answers : Answer(r, s)
        BY <2>3, <3>2 DEF CommitRotate
      <4>2. QED
        BY <4>1, AnswerType
    <3>3. QED
      BY <3>1, <3>2
  <2>4. CASE CommitDelete(r)
    <3>1. RowsTypeOK' /\ UNCHANGED process
      BY <2>4 DEF CommitDelete
    <3>2. \E s \in Answers : Answer(r, s)
      BY <2>4 DEF CommitDelete, Reported
    <3>3. QED
      BY <3>1, <3>2, AnswerType
  <2>5. CASE CommitFails(r)
    <3>1. RowsTypeOK' /\ UNCHANGED process
      BY <2>5 DEF CommitFails
    <3>2. \E s \in Answers : Answer(r, s)
      BY <2>5 DEF CommitFails
    <3>3. QED
      BY <3>1, <3>2, AnswerType
  <2>6. ASSUME NEW u \in Users, CommitCreate(r, u) PROVE TypeOK'
    BY <2>6 DEF CommitCreate
  <2>7. CASE Tell(r)
    <3>1. RowsTypeOK' /\ UNCHANGED process
      BY <2>7 DEF Tell
    <3>2. \E s \in Answers : Answer(r, s)
      BY <2>7 DEF Tell
    <3>3. QED
      BY <3>1, <3>2, AnswerType
  <2>8. CASE CutOff(r)
    <3>1. RowsTypeOK' /\ UNCHANGED process
      BY <2>8 DEF CutOff
    <3>2. \E s \in Answers : Answer(r, s)
      BY <2>8 DEF CutOff
    <3>3. QED
      BY <3>1, <3>2, AnswerType
  <2>9. QED
    BY <1>6, <2>1, <2>2, <2>3, <2>4, <2>5, <2>6, <2>7, <2>8 DEF Handle
<1>7. CASE UNCHANGED vars
  BY <1>7 DEF vars
<1>8. QED
  BY <1>1, <1>2, <1>3, <1>4, <1>5, <1>6, <1>7 DEF Next, Bootstrap

\* Types, and the coherence of rows and request slots.
THEOREM TypeCorrect == Spec => []TypeOK
<1>1. Init => TypeOK
  BY InitInv DEF Inv
<1>2. QED
  BY <1>1, NextType, PTL DEF Spec

-----------------------------------------------------------------------------
\* Generated keys stay apart, and there is at most one administrator.
LEMMA NextApart == Inv /\ [Next]_vars => Apart'
<1> SUFFICES ASSUME Inv, [Next]_vars PROVE Apart'
  OBVIOUS
<1>0. TypeOK /\ TypeOK' /\ Apart /\ BootAdmin
  BY NextType DEF Inv
<1> USE <1>0, KeyAssumption, UserAssumption
    DEF TypeOK, RowsTypeOK, ProcessTypeOK, Coherent, Apart, Holds, Exists, Steps, Answers,
        Rotations, rows, told, process, request, Goto, Store, Insert, Fresh
<1>1. CASE CheckAdmin
  BY <1>1 DEF CheckAdmin
<1>2. ASSUME NEW u \in Users, NEW k \in Keys, CreateAdmin(u, k) PROVE Apart'
  BY <1>2 DEF CreateAdmin, BootAdmin, AdminExists
<1>3. CASE PrintKey
  BY <1>3 DEF PrintKey
<1>4. CASE Crash
  BY <1>4 DEF Crash
<1>5. ASSUME NEW r \in Requests, Arrive(r) PROVE Apart'
  <2>1. ASSUME NEW c \in Users, NEW u \in Users, RotateKey(r, c, u) PROVE Apart'
    BY <2>1 DEF RotateKey, Start
  <2>2. ASSUME NEW c \in Users, NEW u \in Users, DeleteUser(r, c, u) PROVE Apart'
    BY <2>2 DEF DeleteUser, Start
  <2>3. ASSUME NEW c \in Users, NEW k \in Keys, CreateUser(r, c, k) PROVE Apart'
    BY <2>3 DEF CreateUser, Start, Draw
  <2>4. QED
    BY <1>5, <2>1, <2>2, <2>3 DEF Arrive
<1>6. ASSUME NEW r \in Requests, Handle(r) PROVE Apart'
  <2>1. CASE GetUser(r)
    BY <2>1 DEF GetUser, Answer
  <2>2. CASE SelectUser(r)
    <3>1. CASE Exists(subject[r]) /\ op[r] # "delete"
      <4>1. PICK k \in Keys : Draw(r, k)
        BY <2>2, <3>1 DEF SelectUser
      <4>2. UNCHANGED rows /\ pc' = [pc EXCEPT ![r] = "commit"]
        BY <2>2, <3>1 DEF SelectUser
      <4>3. QED
        BY <4>1, <4>2 DEF Draw
    <3>2. CASE Exists(subject[r]) /\ op[r] = "delete"
      BY <2>2, <3>2 DEF SelectUser
    <3>3. CASE ~Exists(subject[r])
      <4>0. op[r] \in {"delete", "rotate", "rotate_own"}
        BY <2>2 DEF SelectUser
      <4>1. /\ UNCHANGED <<rows, minted>>
            /\ key' = [key EXCEPT ![r] = NoKey]
            /\ \E s \in Answers : pc' = [pc EXCEPT ![r] = s]
        BY <2>2, <3>3, <4>0 DEF SelectUser, Missing, Reported, Answer
      <4>2. QED
        BY <4>1
    <3>4. QED
      BY <3>1, <3>2, <3>3
  <2>3. CASE CommitRotate(r)
    BY <2>3 DEF CommitRotate, Answer
  <2>4. CASE CommitDelete(r)
    BY <2>4 DEF CommitDelete, Reported, Answer
  <2>5. CASE CommitFails(r)
    BY <2>5 DEF CommitFails, Answer
  <2>6. ASSUME NEW u \in Users, CommitCreate(r, u) PROVE Apart'
    BY <2>6 DEF CommitCreate
  <2>7. CASE Tell(r)
    BY <2>7 DEF Tell, Answer
  <2>8. CASE CutOff(r)
    BY <2>8 DEF CutOff, Answer
  <2>9. QED
    BY <1>6, <2>1, <2>2, <2>3, <2>4, <2>5, <2>6, <2>7, <2>8 DEF Handle
<1>7. CASE UNCHANGED vars
  BY <1>7 DEF vars
<1>8. QED
  BY <1>1, <1>2, <1>3, <1>4, <1>5, <1>6, <1>7 DEF Next, Bootstrap

\* What a step does to the column is_admin and to the phase of the process.
LEMMA RoleSteps ==
  ASSUME Inv, [Next]_vars
  PROVE  \/ UNCHANGED role /\ (phase' = phase \/ CheckAdmin \/ PrintKey \/ Crash)
         \/ \E u \in Users, k \in Keys : CreateAdmin(u, k)
         \/ /\ phase = "up" /\ phase' = "up"
            /\ \E u \in Users, s \in {"user", "deleted"} : role' = [role EXCEPT ![u] = s]
<1> USE KeyAssumption, UserAssumption DEF rows, process, Insert
<1>1. ASSUME NEW r \in Requests, Arrive(r) PROVE UNCHANGED role /\ UNCHANGED phase
  BY <1>1 DEF Arrive, RotateKey, DeleteUser, CreateUser, Start
<1>2. ASSUME NEW r \in Requests, CommitDelete(r)
      PROVE /\ phase = "up" /\ phase' = "up"
            /\ UNCHANGED role \/ \E u \in Users : role' = [role EXCEPT ![u] = "deleted"]
  <2>1. subject[r] \in Users /\ phase = "up"
    BY <1>2 DEF CommitDelete, Inv, TypeOK, ProcessTypeOK, Coherent, Steps
  <2>2. QED
    BY <1>2, <2>1 DEF CommitDelete
<1>3. ASSUME NEW r \in Requests, NEW u \in Users, CommitCreate(r, u)
      PROVE phase = "up" /\ phase' = "up" /\ role' = [role EXCEPT ![u] = "user"]
  BY <1>3 DEF CommitCreate, Inv, TypeOK, ProcessTypeOK, Coherent, Steps
<1>4. ASSUME NEW r \in Requests,
             GetUser(r) \/ SelectUser(r) \/ CommitRotate(r) \/ CommitFails(r)
               \/ Tell(r) \/ CutOff(r)
      PROVE UNCHANGED role /\ UNCHANGED phase
  BY <1>4 DEF GetUser, SelectUser, CommitRotate, CommitFails, Tell, CutOff
<1>5. QED
  BY <1>1, <1>2, <1>3, <1>4
    DEF Next, Bootstrap, Handle, CheckAdmin, PrintKey, Crash, vars

LEMMA NextAdmin == Inv /\ [Next]_vars => OneAdmin' /\ BootAdmin'
<1> SUFFICES ASSUME Inv, [Next]_vars PROVE OneAdmin' /\ BootAdmin'
  OBVIOUS
<1> USE DEF OneAdmin, BootAdmin, AdminExists
<1>0. OneAdmin /\ BootAdmin /\ role \in [Users -> {"unborn", "user", "admin", "deleted"}]
  BY DEF Inv, TypeOK, RowsTypeOK
<1>1. CASE UNCHANGED role /\ (phase' = phase \/ CheckAdmin \/ PrintKey \/ Crash)
  BY <1>0, <1>1 DEF CheckAdmin, PrintKey, Crash
<1>2. ASSUME NEW u \in Users, NEW k \in Keys, CreateAdmin(u, k)
      PROVE OneAdmin' /\ BootAdmin'
  BY <1>0, <1>2 DEF CreateAdmin, Insert
<1>3. ASSUME NEW u \in Users, NEW s \in {"user", "deleted"},
             role' = [role EXCEPT ![u] = s], phase' = "up"
      PROVE OneAdmin' /\ BootAdmin'
  BY <1>0, <1>3
<1>4. QED
  BY <1>1, <1>2, <1>3, RoleSteps

LEMMA NextInv == Inv /\ [Next]_vars => Inv'
BY NextType, NextApart, NextAdmin DEF Inv

LEMMA Invariance == Spec => []Inv
<1>1. Init => Inv
  BY InitInv
<1>2. QED
  BY <1>1, NextInv, PTL DEF Spec

\* There is never a second administrator.
THEOREM OnlyOneAdmin == Spec => []OneAdmin
<1>1. Inv => OneAdmin
  BY DEF Inv
<1>2. QED
  BY <1>1, Invariance, PTL

\* The server starts to serve only with an administrator in the database.
THEOREM StartsWithAdmin == Spec => AdminAfterStart
<1> DEFINE Served == \E u \in Users : role'[u] = "admin"
<1>1. Inv /\ [Next]_vars => [phase # "up" /\ phase' = "up" => Served]_vars
  <2> SUFFICES ASSUME Inv, [Next]_vars, phase # "up", phase' = "up" PROVE Served
    BY DEF Inv
  <2>1. CheckAdmin \/ PrintKey
    BY RoleSteps DEF CreateAdmin, Crash
  <2>2. QED
    BY <2>1 DEF Inv, BootAdmin, AdminExists, CheckAdmin, PrintKey, rows
<1>2. QED
  BY <1>1, Invariance, PTL DEF Spec, AdminAfterStart

-----------------------------------------------------------------------------
\* Every user's key is known, on its way, or was cut off by a fault.
LEMMA NextKnown == Inv /\ KeyKnown /\ [Next]_vars => KeyKnown'
<1> SUFFICES ASSUME Inv, KeyKnown, [Next]_vars PROVE KeyKnown'
  OBVIOUS
<1> USE KeyAssumption, UserAssumption
    DEF Inv, TypeOK, RowsTypeOK, ProcessTypeOK, Coherent, Exists, Steps, Answers,
        Rotations, rows, told, process, request, KeyKnown, OnItsWay, Goto, Store, Insert
<1>1. CASE CheckAdmin
  BY <1>1 DEF CheckAdmin
<1>2. ASSUME NEW u \in Users, NEW k \in Keys, CreateAdmin(u, k) PROVE KeyKnown'
  BY <1>2 DEF CreateAdmin
<1>3. CASE PrintKey
  BY <1>3 DEF PrintKey
<1>4. CASE Crash
  BY <1>4 DEF Crash
<1>5. ASSUME NEW r \in Requests, Arrive(r) PROVE KeyKnown'
  <2>1. /\ UNCHANGED <<rows, told, process>> /\ pc[r] \in Answers
        /\ \E step \in Steps : pc' = [pc EXCEPT ![r] = step]
        /\ \E u \in Users \cup {NoUser} : subject' = [subject EXCEPT ![r] = u]
        /\ \E k \in Keys \cup {NoKey} : key' = [key EXCEPT ![r] = k] \/ UNCHANGED key
    BY <1>5 DEF Arrive, RotateKey, DeleteUser, CreateUser, Start, Draw
  <2>2. QED
    BY <2>1
<1>6. ASSUME NEW r \in Requests, Handle(r) PROVE KeyKnown'
  <2>1. CASE GetUser(r) \/ SelectUser(r) \/ CommitFails(r)
    <3>1. /\ UNCHANGED <<rows, told, process>> /\ pc[r] # "refresh"
          /\ \A q \in Requests \ {r} :
               pc'[q] = pc[q] /\ subject'[q] = subject[q] /\ key'[q] = key[q]
      <4>1. CASE GetUser(r) \/ CommitFails(r)
        BY <4>1 DEF GetUser, CommitFails, Answer
      <4>2. CASE SelectUser(r) /\ Exists(subject[r])
        <5>1. /\ pc[r] = "select" /\ pc' = [pc EXCEPT ![r] = "commit"]
              /\ UNCHANGED <<rows, told, process, subject>>
          BY <4>2 DEF SelectUser
        <5>2. UNCHANGED key \/ \E k \in Keys : key' = [key EXCEPT ![r] = k]
          BY <4>2 DEF SelectUser, Draw
        <5>3. QED
          BY <5>1, <5>2
      <4>3. CASE SelectUser(r) /\ ~Exists(subject[r])
        <5>1. op[r] \in {"delete", "rotate", "rotate_own"}
          BY <4>3 DEF SelectUser
        <5>2. pc[r] = "select" /\ UNCHANGED <<rows, told, process>>
          BY <4>3, <5>1 DEF SelectUser
        <5>3. \E s \in Answers : Answer(r, s)
          BY <4>3, <5>1 DEF SelectUser, Missing, Reported
        <5>4. QED
          BY <5>2, <5>3 DEF Answer
      <4>4. QED
        BY <2>1, <4>1, <4>2, <4>3
    <3>2. QED
      BY <3>1
  <2>2. CASE CommitRotate(r)
    BY <2>2 DEF CommitRotate, Answer
  <2>3. CASE CommitDelete(r)
    BY <2>3 DEF CommitDelete, Reported, Answer
  <2>4. ASSUME NEW u \in Users, CommitCreate(r, u) PROVE KeyKnown'
    BY <2>4 DEF CommitCreate
  <2>5. CASE Tell(r)
    BY <2>5 DEF Tell, Answer
  <2>6. CASE CutOff(r)
    BY <2>6 DEF CutOff, Answer
  <2>7. QED
    BY <1>6, <2>1, <2>2, <2>3, <2>4, <2>5, <2>6 DEF Handle
<1>7. CASE UNCHANGED vars
  BY <1>7 DEF vars
<1>8. QED
  BY <1>1, <1>2, <1>3, <1>4, <1>5, <1>6, <1>7 DEF Next, Bootstrap

\* No working key is unknown to everyone unless its telling was cut off.
THEOREM KeysAreKnown == Spec => []KeyKnown
<1>1. Init => KeyKnown
  BY InitInv
<1>2. QED
  BY <1>1, NextKnown, Invariance, PTL DEF Spec

-----------------------------------------------------------------------------
\* The refinement: with both columns of one key, the working keys are lookup.
LEMMA NextKeys == Inv /\ Inv' /\ [Next]_vars => [Lifecycle!Next]_<<working, spent>>
<1> SUFFICES ASSUME Inv, Inv', [Next]_vars PROVE [Lifecycle!Next]_<<working, spent>>
  OBVIOUS
<1>0. working = lookup /\ working' = lookup'
  BY DEF Inv, TypeOK, RowsTypeOK, working
<1> USE KeyAssumption, UserAssumption
    DEF Inv, TypeOK, RowsTypeOK, ProcessTypeOK, Coherent, Exists, Steps, Rotations,
        Apart, Holds
<1>1. ASSUME NEW u \in Users, NEW k \in Keys, CreateAdmin(u, k)
      PROVE Lifecycle!Issue(u, k)
  BY <1>0, <1>1 DEF CreateAdmin, Insert, Store, Fresh, BootAdmin, AdminExists,
    Lifecycle!Issue, Lifecycle!Unused
<1>2. ASSUME NEW r \in Requests, NEW u \in Users, CommitCreate(r, u)
      PROVE key[r] \in Keys /\ Lifecycle!Issue(u, key[r])
  BY <1>0, <1>2 DEF CommitCreate, Insert, Store, Lifecycle!Issue, Lifecycle!Unused
<1>3. ASSUME NEW r \in Requests, CommitRotate(r), Exists(subject[r])
      PROVE /\ subject[r] \in Users /\ key[r] \in Keys
            /\ Lifecycle!Replace(subject[r], key[r])
  BY <1>0, <1>3 DEF CommitRotate, Store, Lifecycle!Replace, Lifecycle!Unused
<1>4. ASSUME NEW r \in Requests, CommitDelete(r), Exists(subject[r])
      PROVE subject[r] \in Users /\ Lifecycle!Withdraw(subject[r])
  BY <1>0, <1>4 DEF CommitDelete, Store, Lifecycle!Withdraw
<1>5. ASSUME NEW r \in Requests,
             \/ Arrive(r) \/ GetUser(r) \/ SelectUser(r) \/ CommitFails(r)
             \/ Tell(r) \/ CutOff(r)
             \/ (CommitRotate(r) \/ CommitDelete(r)) /\ ~Exists(subject[r])
      PROVE UNCHANGED <<lookup, spent>>
  BY <1>5 DEF Arrive, RotateKey, DeleteUser, CreateUser, Start, GetUser, SelectUser,
    CommitFails, Tell, CutOff, CommitRotate, CommitDelete, rows
<1>6. CASE CheckAdmin \/ PrintKey \/ Crash \/ UNCHANGED vars
  BY <1>0, <1>6 DEF CheckAdmin, PrintKey, Crash, vars, rows
<1>7. QED
  BY <1>0, <1>1, <1>2, <1>3, <1>4, <1>5, <1>6
    DEF Next, Bootstrap, Handle, Lifecycle!Next

\* Accounts implements KeyLifecycle.
THEOREM Implements == Spec => ImplementsKeys
<1>1. Init => Lifecycle!Init
  BY DEF Init, Lifecycle!Init, working
<1>2. QED
  BY <1>1, Invariance, NextKeys, PTL DEF Spec, ImplementsKeys, Lifecycle!Spec

=============================================================================
