-------------------------------- MODULE Seed --------------------------------
(***************************************************************************)
(* The seed (app/seed.py) beside the requests of Accounts: a process of    *)
(* its own, run by the entrypoint of every container and by hand, so       *)
(* several may run at once and any of them may be killed and run again.    *)
(* It reads the time, makes sure of the shop's account, and then creates   *)
(* the demo sale unless one has still to end, under an advisory lock of    *)
(* the database that lasts until the commit of create_sale.                *)
(***************************************************************************)
EXTENDS Accounts, SaleWindow

CONSTANTS
    AppEnv,         \* Settings.app_env
    Seeds,
    ShopEmail, ShopPassword,    \* settings.seed_shop_email, .seed_shop_password
    StartIn, Duration,          \* DEMO_SALE_START_IN, DEMO_SALE_DURATION
    DemoZone,                   \* DEMO_SALE_TIMEZONE, whose clock never changes
    MaxTime,                    \* bound: the clock stops here
    MaxKills,                   \* bound: seeds that are killed
    NoSeed

ASSUME SeedAssumption ==
    /\ ShopEmail \in Spellings
    /\ ShopPassword \in Passwords
    /\ StartIn \in Nat
    /\ Duration \in Nat \ {0}
    /\ DemoZone \in Zones /\ DemoZone.before = DemoZone.after
    /\ {MaxTime, MaxKills} \subseteq Nat
    /\ NoSeed \notin Seeds

VARIABLES
    time,       \* the database's clock
    seed,       \* where a seed stands
    seedNow,    \* the now it has read
    lockedBy,   \* the owner of the advisory lock
    demos,      \* the demo sales
    kills

vars == <<accounts, time, seed, seedNow, lockedBy, demos, kills>>

TypeOK ==
    /\ AccountsType
    /\ time \in 0 .. MaxTime
    /\ seed \in [Seeds -> {"off", "user", "lock", "check", "create", "done"}]
    /\ seedNow \in [Seeds -> 0 .. time]
    /\ lockedBy \in Seeds \cup {NoSeed}
    /\ \A s \in Seeds : seed[s] \in {"check", "create"} => lockedBy = s
    /\ demos \subseteq [by : Seeds, window : [starts : Nat, ends : Nat]]
    /\ kills \in 0 .. MaxKills

Init ==
    /\ AccountsInit
    /\ time = 0
    /\ seed = [s \in Seeds |-> "off"]
    /\ seedNow = [s \in Seeds |-> 0]
    /\ lockedBy = NoSeed
    /\ demos = {}
    /\ kills = 0

Advance ==
    /\ time < MaxTime
    /\ time' = time + 1
    /\ UNCHANGED <<accounts, seed, seedNow, lockedBy, demos, kills>>

\* main: outside production, the now is read before anything else, in a
\* transaction of its own.
SeedStart(s) ==
    /\ AppEnv # "prod"
    /\ seed[s] \in {"off", "done"}
    /\ seed' = [seed EXCEPT ![s] = "user"]
    /\ seedNow' = [seedNow EXCEPT ![s] = time]
    /\ UNCHANGED <<accounts, time, lockedBy, demos, kills>>

\* seed_shop_user
SeedUser(s) ==
    /\ seed[s] = "user"
    /\ seed' = [seed EXCEPT ![s] = "lock"]
    /\ users' = Upserted(s, Normalised(ShopEmail), ShopPassword, "shop")
    /\ UNCHANGED <<reg, login, time, seedNow, lockedBy, demos, kills>>

\* Nobody waits for the lock.
LockFree_Ignored == TRUE

LockFree == lockedBy = NoSeed

\* SELECT pg_advisory_xact_lock
SeedLock(s) ==
    /\ seed[s] = "lock"
    /\ LockFree
    /\ seed' = [seed EXCEPT ![s] = "check"]
    /\ lockedBy' = s
    /\ UNCHANGED <<accounts, time, seedNow, demos, kills>>

\* One that ends this very moment counts.
Live_UpToEnd(d, n) == d.window.ends >= n

Live(d, n) == d.window.ends > n

\* The lock goes with the transaction, committed or not.
SeedCheck(s) ==
    /\ seed[s] = "check"
    /\ IF \E d \in demos : Live(d, seedNow[s])
       THEN /\ seed' = [seed EXCEPT ![s] = "done"]
            /\ lockedBy' = NoSeed
       ELSE /\ seed' = [seed EXCEPT ![s] = "create"]
            /\ UNCHANGED lockedBy
    /\ UNCHANGED <<accounts, time, seedNow, demos, kills>>

\* create_sale, with the window that the now read at the start has on the
\* demo's clock, which never changes and so refuses none (RefusedOnlySkipped).
SeedCreate(s) ==
    /\ seed[s] = "create"
    /\ seed' = [seed EXCEPT ![s] = "done"]
    /\ lockedBy' = NoSeed
    /\ LET starts == ToLocal(seedNow[s], DemoZone) + StartIn
           ends == starts + Duration
       IN  /\ Accepts(starts, ends, DemoZone)
           /\ demos' = demos \cup {[by |-> s, window |-> Window(starts, ends, DemoZone)]}
    /\ UNCHANGED <<accounts, time, seedNow, kills>>

SeedKilled(s) ==
    /\ seed[s] \notin {"off", "done"}
    /\ kills < MaxKills
    /\ kills' = kills + 1
    /\ seed' = [seed EXCEPT ![s] = "off"]
    /\ lockedBy' = IF lockedBy = s THEN NoSeed ELSE lockedBy
    /\ UNCHANGED <<accounts, time, seedNow, demos>>

SeedStep(s) ==
    \/ SeedStart(s) \/ SeedUser(s) \/ SeedLock(s) \/ SeedCheck(s) \/ SeedCreate(s)
    \/ SeedKilled(s)

Next ==
    \/ Advance
    \/ \E s \in Seeds : SeedStep(s)
    \/ AccountsNext /\ UNCHANGED <<time, seed, seedNow, lockedBy, demos, kills>>

Spec == Init /\ [][Next]_vars

-----------------------------------------------------------------------------

\* After the seed its shop account is there, with the shop's role and password,
\* even if a buyer has registered the email first or does so in the middle of
\* it (auth.py:74-76).
ShopAccountReady ==
    (\E s \in Seeds : seed[s] \in {"lock", "check", "create", "done"}) =>
        \E u \in users : /\ u.email = Lower[ShopEmail]
                         /\ u.password = ShopPassword
                         /\ u.role = "shop"

\* Seeds that overlap, are killed or work with an old now "can't create two
\* live demo sales" (seed.py:48-50): the windows of two never overlap, and one
\* is left alone until it has ended.
OneLiveDemo ==
    \A d, e \in demos : d # e => \/ d.window.ends <= e.window.starts
                             \/ e.window.ends <= d.window.starts

\* A seed that has come to its end leaves a demo sale that has still to end at
\* the now it works with, its own or another one's (seed.py:41-46).
DemoLeft ==
    \A s \in Seeds : seed[s] = "done" => \E d \in demos : d.window.ends > seedNow[s]

\* Who has been told that his account is there, and logs in afterwards with the
\* same password and any spelling of the same email, is let in, unless the seed
\* has made that email its shop's.
RegisteredCanLogIn ==
    [][\A l \in Logins :
        login[l] = "new" /\ login'[l] = "refused" =>
            ~\E r \in Regs : /\ reg[r] = "created"
                             /\ Lower[Typed[r]] = Lower[Typed[l]]
                             /\ Password[r] = Password[l]
                             /\ Lower[Typed[r]] # Lower[ShopEmail]]_vars

=============================================================================
