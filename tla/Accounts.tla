------------------------------ MODULE Accounts ------------------------------
(***************************************************************************)
(* Users and their API keys: services/user_service.py behind the handlers  *)
(* of api/v1/admin.py and api/v1/user.py, the authentication of            *)
(* security/deps.py, and scripts/bootstrap_admin.py, which the container   *)
(* runs before the server at every start.                                  *)
(*                                                                         *)
(* A key is generated, committed as two columns of the user's row, and     *)
(* told to a person once, in an answer or on the console.  Between the     *)
(* commit and the telling the process may die, the audit entry may fail,   *)
(* the row may be removed or the client may be gone; and several requests  *)
(* about one user are in flight, interleaved at every await.               *)
(***************************************************************************)
CONSTANTS
  Requests,
  Users,          \* user identities
  Keys,           \* keys, each standing for its two hashes as well
  ConfiguredKey,  \* ADMIN_API_KEY, which the operator may set for a start
  NoUser, NoKey

ASSUME UserAssumption == NoUser \notin Users
ASSUME KeyAssumption == NoKey \notin Keys /\ ConfiguredKey \in Keys

VARIABLES
  role,      \* role[u]: is_admin of the row of u, and whether there is one
  lookup,    \* api_key_lookup_hash of that row
  hash,      \* api_key_hash of that row
  minted,    \* keys generated so far
  spent,     \* keys replaced or removed from a row so far
  known,     \* keys told to a person
  lost,      \* keys committed whose telling was cut off
  phase,     \* where the process is: in the bootstrap script, or serving
  printing,  \* plaintext_key of the bootstrap script
  pc,        \* pc[r]: where the handler of request r is, or its answer
  op,        \* op[r]: what request r asks for
  subject,   \* subject[r]: the user in its path, or the one it created
  key        \* key[r]: raw_key

rows    == <<role, lookup, hash, spent>>
told    == <<known, lost>>
process == <<phase, printing>>
request == <<pc, op, subject, key>>
vars    == <<rows, minted, told, process, request>>

Rotations == {"rotate", "rotate_own"}
Steps     == {"get", "select", "commit", "refresh"}
Answers   == {"idle", "200", "201", "204", "404", "500"}

Exists(u) == role[u] \in {"user", "admin"}

Init ==
  /\ role = [u \in Users |-> "unborn"]
  /\ lookup = [u \in Users |-> NoKey]
  /\ hash = [u \in Users |-> NoKey]
  /\ minted = {} /\ spent = {} /\ known = {} /\ lost = {}
  /\ phase = "check"
  /\ printing = NoKey
  /\ pc = [r \in Requests |-> "idle"]
  /\ op = [r \in Requests |-> "none"]
  /\ subject = [r \in Requests |-> NoUser]
  /\ key = [r \in Requests |-> NoKey]

-----------------------------------------------------------------------------
(***************************************************************************)
(* Keys and rows.                                                          *)
(***************************************************************************)
\* Mutant: a generator that repeats itself.
FreshRepeated(k) == k \in Keys \ {ConfiguredKey}

\* generate_api_key: 256 random bits are nobody else's key, now or before.
Fresh(k) == k \in Keys \ (minted \cup {ConfiguredKey})

\* Mutant: the lookup hash is forgotten.
StoreHashOnly(u, k) == hash' = [hash EXCEPT ![u] = k] /\ UNCHANGED lookup

\* Both columns are written by one statement.
Store(u, k) ==
  /\ lookup' = [lookup EXCEPT ![u] = k]
  /\ hash' = [hash EXCEPT ![u] = k]

Insert(u, r, k) ==
  /\ role[u] = "unborn"
  /\ role' = [role EXCEPT ![u] = r]
  /\ Store(u, k)
  /\ UNCHANGED spent

\* get_current_user: the row is found by one column and verified by the other.
Authenticates(k, u) == lookup[u] = k /\ hash[u] = k

\* A person who sends requests as u holds a key of u's.
Caller(u) == \E k \in known : Authenticates(k, u)

-----------------------------------------------------------------------------
(***************************************************************************)
(* bootstrap_admin.py, before each start of the server.                    *)
(***************************************************************************)
\* Mutant: any user will do.
AdminExistsOrUser == \E u \in Users : Exists(u)

AdminExists == \E u \in Users : role[u] = "admin"

\* Mutant: an administrator is created at every start.
CheckAdminNever ==
  /\ phase = "check"
  /\ phase' = "create"
  /\ UNCHANGED <<rows, minted, told, printing, request>>

CheckAdmin ==
  /\ phase = "check"
  /\ phase' = IF AdminExists THEN "up" ELSE "create"
  /\ UNCHANGED <<rows, minted, told, printing, request>>

CreateAdmin(u, k) ==
  /\ phase = "create"
  /\ k = ConfiguredKey \/ Fresh(k)
  /\ Insert(u, "admin", k)
  /\ minted' = minted \cup {k}
  /\ printing' = k
  /\ phase' = "print"
  /\ UNCHANGED <<told, request>>

PrintKey ==
  /\ phase = "print"
  /\ known' = known \cup {printing}
  /\ printing' = NoKey
  /\ phase' = "up"
  /\ UNCHANGED <<rows, minted, lost, request>>

-----------------------------------------------------------------------------
(***************************************************************************)
(* The handlers.                                                           *)
(***************************************************************************)
Goto(r, step) == pc' = [pc EXCEPT ![r] = step]

Answer(r, status) ==
  /\ Goto(r, status)
  /\ op' = [op EXCEPT ![r] = "none"]
  /\ subject' = [subject EXCEPT ![r] = NoUser]
  /\ key' = [key EXCEPT ![r] = NoKey]

\* The audit entry is written before the answer; the writing may raise.
Reported(r, status) == \E s \in {status, "500"} : Answer(r, s)

Start(r, o, u, step) ==
  /\ phase = "up"
  /\ pc[r] \in Answers
  /\ Goto(r, step)
  /\ op' = [op EXCEPT ![r] = o]
  /\ subject' = [subject EXCEPT ![r] = u]
  /\ UNCHANGED <<rows, told, process>>

Draw(r, k) ==
  /\ Fresh(k)
  /\ minted' = minted \cup {k}
  /\ key' = [key EXCEPT ![r] = k]

\* require_ownership_or_admin, require_admin.
RotateKey(r, c, u) ==
  /\ Caller(c)
  /\ \/ (role[c] = "admin" \/ c = u) /\ Start(r, "rotate_own", u, "select")
     \/ role[c] = "admin" /\ Start(r, "rotate", u, "select")
  /\ UNCHANGED <<minted, key>>

CreateUser(r, c, k) ==
  /\ Caller(c) /\ role[c] = "admin"
  /\ Draw(r, k)
  /\ Start(r, "create", NoUser, "commit")

DeleteUser(r, c, u) ==
  /\ Caller(c) /\ role[c] = "admin"
  /\ Start(r, "delete", u, "get")
  /\ UNCHANGED <<minted, key>>

\* The handler of a delete looks for the row ...
GetUser(r) ==
  /\ pc[r] = "get"
  /\ IF Exists(subject[r])
       THEN Goto(r, "select") /\ UNCHANGED <<op, subject, key>>
       ELSE Answer(r, "404")
  /\ UNCHANGED <<rows, minted, told, process>>

\* ... and so does the service: without one, delete_user returns silently and
\* rotate_user_key raises, which only the administrator's handler expects.
Missing(r) ==
  \/ op[r] = "delete" /\ Reported(r, "204")
  \/ op[r] = "rotate" /\ Reported(r, "404")
  \/ op[r] = "rotate_own" /\ Answer(r, "500")

SelectUser(r) ==
  /\ pc[r] = "select"
  /\ IF Exists(subject[r])
       THEN /\ \/ op[r] = "delete" /\ UNCHANGED <<minted, key>>
               \/ op[r] # "delete" /\ \E k \in Keys : Draw(r, k)
            /\ Goto(r, "commit")
            /\ UNCHANGED <<op, subject>>
       ELSE Missing(r) /\ UNCHANGED minted
  /\ UNCHANGED <<rows, told, process>>

\* Mutant: the key is generated once more for the row.
CommitRotateAgain(r) ==
  /\ pc[r] = "commit" /\ op[r] \in Rotations
  /\ IF Exists(subject[r])
       THEN \E k \in Keys :
              /\ Fresh(k)
              /\ minted' = minted \cup {k}
              /\ Store(subject[r], k)
              /\ spent' = spent \cup {lookup[subject[r]]}
              /\ Goto(r, "refresh")
              /\ UNCHANGED <<op, subject, key>>
       ELSE Answer(r, "500") /\ UNCHANGED <<lookup, hash, spent, minted>>
  /\ UNCHANGED <<role, told, process>>

\* The UPDATE of a row that has gone meanwhile is a StaleDataError.
CommitRotate(r) ==
  /\ pc[r] = "commit" /\ op[r] \in Rotations
  /\ IF Exists(subject[r])
       THEN /\ Store(subject[r], key[r])
            /\ spent' = spent \cup {lookup[subject[r]]}
            /\ Goto(r, "refresh")
            /\ UNCHANGED <<op, subject, key>>
       ELSE Answer(r, "500") /\ UNCHANGED <<lookup, hash, spent>>
  /\ UNCHANGED <<role, minted, told, process>>

CommitCreate(r, u) ==
  /\ pc[r] = "commit" /\ op[r] = "create"
  /\ Insert(u, "user", key[r])
  /\ subject' = [subject EXCEPT ![r] = u]
  /\ Goto(r, "refresh")
  /\ UNCHANGED <<minted, told, process, op, key>>

\* The DELETE of a row that has gone meanwhile is only warned about.
CommitDelete(r) ==
  /\ pc[r] = "commit" /\ op[r] = "delete"
  /\ IF Exists(subject[r])
       THEN /\ role' = [role EXCEPT ![subject[r]] = "deleted"]
            /\ spent' = spent \cup {lookup[subject[r]]}
            /\ Store(subject[r], NoKey)
       ELSE UNCHANGED rows
  /\ Reported(r, "204")
  /\ UNCHANGED <<minted, told, process>>

\* The write lock is not free in time, or a row arrived that needs the user.
CommitFails(r) ==
  /\ pc[r] = "commit"
  /\ Answer(r, "500")
  /\ UNCHANGED <<rows, minted, told, process>>

\* session.refresh(user), the audit entry and the answer.
Tell(r) ==
  /\ pc[r] = "refresh"
  /\ Exists(subject[r])
  /\ known' = known \cup {key[r]}
  /\ Answer(r, IF op[r] = "create" THEN "201" ELSE "200")
  /\ UNCHANGED <<rows, minted, lost, process>>

\* The row has gone, the audit entry cannot be written, or nobody listens.
CutOff(r) ==
  /\ pc[r] = "refresh"
  /\ lost' = lost \cup {key[r]}
  /\ Answer(r, "500")
  /\ UNCHANGED <<rows, minted, known, process>>

\* The process dies; the container starts it again, bootstrap script first.
Crash ==
  /\ phase' = "check"
  /\ printing' = NoKey
  /\ lost' = lost \cup ({printing} \ {NoKey})
                  \cup {key[r] : r \in {q \in Requests : pc[q] = "refresh"}}
  /\ pc' = [r \in Requests |-> "idle"]
  /\ op' = [r \in Requests |-> "none"]
  /\ subject' = [r \in Requests |-> NoUser]
  /\ key' = [r \in Requests |-> NoKey]
  /\ UNCHANGED <<rows, minted, known>>

Bootstrap ==
  CheckAdmin \/ PrintKey \/ \E u \in Users, k \in Keys : CreateAdmin(u, k)

Arrive(r) ==
  \/ \E c, u \in Users : RotateKey(r, c, u) \/ DeleteUser(r, c, u)
  \/ \E c \in Users, k \in Keys : CreateUser(r, c, k)

Handle(r) ==
  \/ GetUser(r) \/ SelectUser(r)
  \/ CommitRotate(r) \/ CommitDelete(r) \/ CommitFails(r)
  \/ \E u \in Users : CommitCreate(r, u)
  \/ Tell(r) \/ CutOff(r)

Next == Bootstrap \/ Crash \/ \E r \in Requests : Arrive(r) \/ Handle(r)

Spec == Init /\ [][Next]_vars

-----------------------------------------------------------------------------
(***************************************************************************)
(* Properties.                                                             *)
(***************************************************************************)
\* The two columns of a row are of one key, and a row has one.
RowsTypeOK ==
  /\ role \in [Users -> {"unborn", "user", "admin", "deleted"}]
  /\ lookup \in [Users -> Keys \cup {NoKey}]
  /\ hash = lookup
  /\ \A u \in Users : lookup[u] # NoKey <=> Exists(u)
  /\ minted \subseteq Keys /\ spent \subseteq Keys
  /\ known \subseteq Keys /\ lost \subseteq Keys

ProcessTypeOK ==
  /\ phase \in {"check", "create", "print", "up"}
  /\ printing \in Keys \cup {NoKey}
  /\ printing # NoKey <=> phase = "print"
  /\ pc \in [Requests -> Answers \cup Steps]
  /\ op \in [Requests -> Rotations \cup {"create", "delete", "none"}]
  /\ subject \in [Requests -> Users \cup {NoUser}]
  /\ key \in [Requests -> Keys \cup {NoKey}]

\* Requests are served only after the bootstrap; an answered one keeps
\* nothing, and one has a key from its generation to the answer.
Coherent(r) ==
  /\ pc[r] \in Steps => phase = "up"
  /\ pc[r] \in Steps <=> op[r] # "none"
  /\ pc[r] = "get" => op[r] = "delete"
  /\ pc[r] = "select" => op[r] # "create"
  /\ pc[r] = "refresh" => op[r] # "delete"
  /\ key[r] # NoKey <=> pc[r] \in {"commit", "refresh"} /\ op[r] # "delete"
  /\ subject[r] # NoUser <=>
       pc[r] \in Steps /\ (op[r] # "create" \/ pc[r] = "refresh")

\* Types, and what belongs together in the rows and in the request slots.
TypeOK == RowsTypeOK /\ ProcessTypeOK /\ \A r \in Requests : Coherent(r)

\* README.md 110, "shown once": the key that works for a user has been told to
\* someone, or is on its way in the answer to a request about that user (of
\* overlapping rotations, the one that committed last, user_service.py 67) or
\* to the console, unless the telling was cut off after the commit.
OnItsWay(u) ==
  \/ \E r \in Requests : pc[r] = "refresh" /\ subject[r] = u /\ key[r] = lookup[u]
  \/ phase = "print" /\ printing = lookup[u]

KeyKnown ==
  \A u \in Users : Exists(u) => lookup[u] \in known \cup lost \/ OnItsWay(u)

\* There is never a second administrator, although the bootstrap script looks
\* (line 17) and inserts (line 35) in two transactions, may be killed between
\* or after them, and runs again at every start.
OneAdmin == \A u, v \in Users : role[u] = "admin" /\ role[v] = "admin" => u = v

\* Whatever was deleted and wherever the last run ended, the server starts to
\* serve only with an administrator in the database.
AdminAfterStart ==
  [][phase # "up" /\ phase' = "up" => \E u \in Users : role'[u] = "admin"]_vars

\* Rows and requests taken together implement KeyLifecycle: a key works for
\* one user at a time and, once replaced or deleted with its user, never again,
\* except that ADMIN_API_KEY returns with a new administrator.
working == [u \in Users |-> IF hash[u] = lookup[u] THEN lookup[u] ELSE NoKey]

Lifecycle == INSTANCE KeyLifecycle WITH works <- working, Configured <- ConfiguredKey

ImplementsKeys == Lifecycle!Spec

=============================================================================
