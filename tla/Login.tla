-------------------------------- MODULE Login --------------------------------
(* Principals and the login of init (base-system/src/init.cpp 190-280,      *)
(* 354-690, 1192-1217).  Two threads of init ask for the principal of a     *)
(* user: the one that logs people in, and the one that starts services.     *)
(* Both fill one table, without a lock, in the three writes of              *)
(* cache_principal().  A principal is the user that it is for.              *)
(* The kernel keeps the accounts; userctl changes them through it, and the  *)
(* store of users on the disk follows, or is gone, or cannot be used.       *)
EXTENDS Integers, Sequences

CONSTANTS
  Users,              \* the names of accounts
  Root,               \* one of them
  Slots,              \* the places of g_principals: 1..8 in the code
  MaxStarts,          \* bound: services started
  MaxLogins,          \* bound: names typed
  MaxChanges          \* bound: changes by userctl

LoginAssumption ==
  /\ Root \in Users /\ Slots \subseteq Nat \ {0}
  /\ MaxStarts \in Nat /\ MaxLogins \in Nat /\ MaxChanges \in Nat

Threads == {"login", "manager"}
Nobody == "nobody"
NoSlot == 0

VARIABLES
  accounts,           \* the kernel's: [user -> "none", "plain" or its password]
  store,              \* what is read of the disk: "true", "missing" or "invalid"
  allow,              \* g_allow_passwordless_root_bootstrap
  g_principals,       \* [slot -> [in_use, name, principal]]
  at,                 \* [thread -> where it is]
  asked,              \* [thread -> user_name in ensure_user_principal()]
  principal,          \* [thread -> its principal there]
  slot,               \* [thread -> the place it fills]
  users,              \* what load_login_users() made of the store
  typed,              \* the name and the password typed, Nobody at first
  left,               \* starts, logins and changes that are left
  booted,             \* history: what the accounts were when init began
  overlapped,         \* history: both threads were filling one place
  wrong               \* history: what ran as another user or for a wrong password

cacheVars == <<g_principals, slot, overlapped>>
worldVars == <<accounts, store, allow, booted>>
vars == <<worldVars, cacheVars, at, asked, principal, users, typed, left, wrong>>

Secrets == {"p", "q"}
Absent == "none"
Plain == "plain"

Free == [in_use |-> FALSE, name |-> Nobody, principal |-> Nobody]
Empty == [u \in Users |-> Absent]

-----------------------------------------------------------------------------
(* The store.                                                              *)

\* Only a store of the current version without entries is explicitly empty.
ExplicitEmpty == store = "true" /\ accounts = Empty

\* What the boot found.
FirstBoot == booted.store = "true" /\ booted.accounts = Empty

\* load_login_users() fails for an empty one too.
Loaded == IF store = "true" THEN accounts ELSE Empty

Init ==
  /\ accounts \in {Empty, [Empty EXCEPT ![Root] = "p"], [u \in Users |-> "p"], [u \in Users |-> Plain]}
  /\ store \in {"true", "missing", "invalid"}
  /\ booted = [accounts |-> accounts, store |-> store]
  /\ allow = FALSE
  /\ g_principals = [i \in Slots |-> Free]
  /\ at = [t \in Threads |-> IF t = "login" THEN "boot" ELSE "none"]
  /\ asked = [t \in Threads |-> Nobody]
  /\ principal = [t \in Threads |-> Nobody]
  /\ slot = [t \in Threads |-> NoSlot]
  /\ users = Empty
  /\ typed = <<Nobody, Nobody>>
  /\ left = [starts |-> MaxStarts, logins |-> MaxLogins, changes |-> MaxChanges]
  /\ overlapped = FALSE
  /\ wrong = {}

-----------------------------------------------------------------------------
(* ensure_user_principal(), by any of the threads.                         *)

Goes(t, place) == at' = [at EXCEPT ![t] = place]

\* The entry of the name with a principal in it: one whose principal is not
\* written yet counts as none.
FoundAt(u) == {i \in Slots : g_principals[i].in_use /\ g_principals[i].name = u}

Asks(t, u) == Goes(t, "look") /\ asked' = [asked EXCEPT ![t] = u]

\* find_cached_principal() ends at the first entry of the name.
Look(t) ==
  /\ at[t] = "look"
  /\ LET found == FoundAt(asked[t])
         first == CHOOSE i \in found : \A j \in found : i <= j
     IN  IF found # {} /\ g_principals[first].principal # Nobody
         THEN /\ principal' = [principal EXCEPT ![t] = g_principals[first].principal]
              /\ Goes(t, "have")
         ELSE principal' = principal /\ Goes(t, "create")
  /\ UNCHANGED <<worldVars, cacheVars, asked, users, typed, left, wrong>>

\* The root account is made at boot only, before there is another thread.
MayCreate(t) == allow /\ at["manager"] = "none" /\ asked[t] = Root

\* principal_create() may fail.
Create(t) ==
  /\ at[t] = "create"
  /\ \/ /\ \/ accounts[asked[t]] # Absent /\ accounts' = accounts
           \/ /\ accounts[asked[t]] = Absent /\ MayCreate(t)
              /\ accounts' = [accounts EXCEPT ![Root] = Plain]
        /\ principal' = [principal EXCEPT ![t] = asked[t]]
        /\ Goes(t, "choose")
     \/ /\ principal' = [principal EXCEPT ![t] = Nobody] /\ Goes(t, "have")
        /\ UNCHANGED accounts
  /\ UNCHANGED <<store, allow, booted, cacheVars, asked, users, typed, left, wrong>>

\* The first place that is not in use, if there is one.
Choose(t) ==
  /\ at[t] = "choose"
  /\ LET free == {i \in Slots : ~g_principals[i].in_use}
     IN  IF free = {} THEN Goes(t, "have") /\ slot' = slot
         ELSE /\ Goes(t, "mark")
              /\ slot' = [slot EXCEPT ![t] = CHOOSE i \in free : \A j \in free : i <= j]
  /\ overlapped' = (overlapped \/ \E o \in Threads \ {t} : slot[o] # NoSlot /\ slot[o] = slot'[t])
  /\ UNCHANGED <<worldVars, g_principals, asked, principal, users, typed, left, wrong>>

\* in_use, the name and the principal, one after the other.
Fill(t, from, to, entry) ==
  /\ at[t] = from /\ Goes(t, to)
  /\ g_principals' = [g_principals EXCEPT ![slot[t]] = entry]
  /\ slot' = IF to = "have" THEN [slot EXCEPT ![t] = NoSlot] ELSE slot
  /\ UNCHANGED <<worldVars, overlapped, asked, principal, users, typed, left, wrong>>

Mark(t) == Fill(t, "mark", "name", [g_principals[slot[t]] EXCEPT !.in_use = TRUE])
Name(t) == Fill(t, "name", "keep", [g_principals[slot[t]] EXCEPT !.name = asked[t]])
Keep(t) == Fill(t, "keep", "have", [g_principals[slot[t]] EXCEPT !.principal = principal[t]])

-----------------------------------------------------------------------------
(* The threads.                                                            *)

Forgets(t) ==
  /\ principal' = [principal EXCEPT ![t] = Nobody]
  /\ asked' = [asked EXCEPT ![t] = Nobody]

\* main(): the marker of a first boot is the store at this moment.
Boot ==
  /\ at["login"] = "boot"
  /\ allow' = ExplicitEmpty
  /\ Asks("login", Root)
  /\ UNCHANGED <<accounts, store, booted, cacheVars, principal, users, typed, left, wrong>>

\* activate_initial_root_principal(): without a principal init stays here; with
\* it, the thread of the services begins.
Activate ==
  /\ at["login"] = "have" /\ at["manager"] = "none" /\ principal["login"] # Nobody
  /\ at' = [at EXCEPT !["login"] = "load", !["manager"] = "idle"]
  /\ Forgets("login")
  /\ UNCHANGED <<worldVars, cacheVars, users, typed, left, wrong>>

\* The manager starts a service of some user, and runs it if there is a
\* principal.
StartService(u) ==
  /\ at["manager"] = "idle" /\ left.starts > 0
  /\ left' = [left EXCEPT !.starts = @ - 1]
  /\ Asks("manager", u)
  /\ UNCHANGED <<worldVars, cacheVars, principal, users, typed, wrong>>

RunService ==
  /\ at["manager"] = "have"
  /\ Goes("manager", "idle") /\ Forgets("manager")
  /\ wrong' = wrong \cup {x \in {"service"} : principal["manager"] \notin {Nobody, asked["manager"]}}
  /\ UNCHANGED <<worldVars, cacheVars, users, typed, left>>

\* The loop waits for a second when there is nobody to log in.
Load ==
  /\ at["login"] = "load" /\ left.logins > 0 /\ Loaded # Empty
  /\ users' = Loaded /\ Goes("login", "prompt")
  /\ UNCHANGED <<worldVars, cacheVars, asked, principal, typed, left, wrong>>

Again ==
  /\ Goes("login", "load") /\ typed' = <<Nobody, Nobody>>
  /\ UNCHANGED <<worldVars, cacheVars, asked, principal, users, wrong>>

\* Those with a password, and root without one after a first boot.
AskedForPassword == {u \in Users : users[u] \in Secrets}
LetIn == {u \in {Root} : users[u] = Plain /\ allow}

\* A name that is neither, and an empty one, is turned away.
TypeName(n) ==
  /\ at["login"] = "prompt"
  /\ left' = [left EXCEPT !.logins = @ - 1]
  /\ \/ n \notin AskedForPassword \cup LetIn /\ Again
     \/ /\ n \in AskedForPassword
        /\ Goes("login", "password") /\ typed' = <<n, Nobody>>
        /\ UNCHANGED <<worldVars, cacheVars, asked, principal, users, wrong>>
     \/ /\ n \in LetIn
        /\ Asks("login", n) /\ typed' = <<n, Nobody>>
        /\ UNCHANGED <<worldVars, cacheVars, principal, users, wrong>>

\* The password is compared with the hash that was read before the name.
TypePassword(s) ==
  /\ at["login"] = "password"
  /\ \/ /\ s = users[typed[1]]
        /\ Asks("login", typed[1]) /\ typed' = [typed EXCEPT ![2] = s]
        /\ UNCHANGED <<worldVars, cacheVars, principal, users, left, wrong>>
     \/ s # users[typed[1]] /\ Again /\ UNCHANGED left

\* exec_as() returns when the shell has ended, and at once when it did not
\* start.
RunShell ==
  /\ at["login"] = "have" /\ at["manager"] # "none"
  /\ Goes("login", "load") /\ Forgets("login") /\ typed' = <<Nobody, Nobody>>
  /\ wrong' = wrong \cup
       {x \in {"principal"} : principal["login"] \notin {Nobody, typed[1]}} \cup
       {x \in {"password"} :
          /\ principal["login"] # Nobody
          /\ IF users[typed[1]] = Plain THEN ~FirstBoot ELSE typed[2] # users[typed[1]]}
  /\ UNCHANGED <<worldVars, cacheVars, users, left>>

\* userctl create and passwd, of a service or of the shell of somebody: the
\* kernel writes the store.
Change(u, secret) ==
  /\ at["manager"] # "none" /\ left.changes > 0
  /\ \/ accounts[u] = Absent /\ secret = Plain
     \/ accounts[u] # Absent /\ secret \in Secrets
  /\ accounts' = [accounts EXCEPT ![u] = secret] /\ store' = "true"
  /\ left' = [left EXCEPT !.changes = @ - 1]
  /\ UNCHANGED <<allow, booted, cacheVars, at, asked, principal, users, typed, wrong>>

Ensure(t) == Look(t) \/ Create(t) \/ Choose(t) \/ Mark(t) \/ Name(t) \/ Keep(t)

Next ==
  \/ Boot \/ Activate \/ Load \/ RunShell \/ RunService
  \/ \E t \in Threads : Ensure(t)
  \/ \E u \in Users : StartService(u)
  \/ \E n \in Users \cup {Nobody} : TypeName(n)
  \/ \E s \in Secrets : TypePassword(s)
  \/ \E u \in Users, s \in Secrets \cup {Plain} : Change(u, s)

Spec == Init /\ [][Next]_vars

-----------------------------------------------------------------------------
TypeOK ==
  /\ at \in [Threads -> {"none", "boot", "look", "create", "choose", "mark", "name", "keep",
                         "have", "load", "prompt", "password", "idle"}]
  /\ g_principals \in [Slots -> [in_use : BOOLEAN, name : Users \cup {Nobody},
                                 principal : Users \cup {Nobody}]]
  /\ slot \in [Threads -> Slots \cup {NoSlot}]
  /\ principal \in [Threads -> Users \cup {Nobody}]

\* A shell runs for the password that its user had when the name was asked for,
\* or without one for root after a boot with an empty store; it and every
\* service runs with the principal of its user.  The last part is not true once
\* both threads have filled one place of the table: then an entry may have the
\* name of one and the principal of the other.
SessionsJust ==
  /\ "password" \notin wrong
  /\ overlapped \/ {"principal", "service"} \cap wrong = {}

\* An entry in the table is of one user: a name is never next to the principal
\* of another.
EntriesWhole ==
  overlapped \/ \A i \in Slots :
    g_principals[i].principal = Nobody \/ g_principals[i].name = g_principals[i].principal

\* The first account is made up only on a boot that found an empty store.
RootNotMadeUp ==
  accounts[Root] # Absent /\ left.changes = MaxChanges /\ booted.accounts[Root] = Absent =>
    FirstBoot
=============================================================================
