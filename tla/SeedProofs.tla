------------------------------ MODULE SeedProofs ------------------------------
(***************************************************************************)
(* The safety properties of accounts and of the seed, for any registrations*)
(* and logins, any number of seeds killed any number of times, and a demo  *)
(* clock of any zone that keeps its offset.                                *)
(***************************************************************************)
EXTENDS Seed, TLAPS

-----------------------------------------------------------------------------
(***************************************************************************)
(* The window of a sale, for every zone and every wall-clock time.         *)
(***************************************************************************)
\* A wall-clock time that comes twice means its first instant, and one that
\* comes at all means an instant at which it comes (sales.py:24-26).
THEOREM FirstInstant ==
    ASSUME NEW z \in Zones, NEW l \in Int, ~Skipped(l, z)
    PROVE  /\ ToLocal(ToUtc(l, z), z) = l
           /\ \A u \in Int : ToLocal(u, z) = l => ToUtc(l, z) <= u
  BY SMT DEF Zones, Skipped, ToLocal, ToUtc, Later

\* A window typed the right way round is refused only if one of its ends does
\* not exist on that day's clock (sales.py:47-50, routers/sales.py:48-52).
THEOREM RefusedOnlySkipped ==
    ASSUME NEW z \in Zones, NEW s \in Int, NEW e \in Int,
           ~Skipped(s, z), ~Skipped(e, z)
    PROVE  Accepts(s, e, z) <=> s < e
  BY SMT DEF Zones, Skipped, Accepts, ToUtc, Later

\* No sale is stored with a window that never opens, and its phases come in
\* their order, each of them: what FlashSale assumes of a sale's window
\* (sales.py:29-35, 47-50).
THEOREM PhasesInOrder ==
    ASSUME NEW z \in Zones, NEW s \in Int, NEW e \in Int, Accepts(s, e, z)
    PROVE  LET w == Window(s, e, z) IN
           /\ \A now, later \in Int :
                now <= later => Rank[Phase(w, now)] <= Rank[Phase(w, later)]
           /\ \E now \in Int : Phase(w, now) = "active"
<1> DEFINE w == Window(s, e, z)
<1>1. w.starts \in Int /\ w.ends \in Int /\ w.starts < w.ends
  BY SMT DEF Zones, Accepts, Window, ToUtc, Later
<1>2. \A now, later \in Int : now <= later => Rank[Phase(w, now)] <= Rank[Phase(w, later)]
  BY <1>1, SMT DEF Phase, Rank
<1>3. Phase(w, w.starts) = "active"
  BY <1>1, SMT DEF Phase
<1>4. QED
  BY <1>1, <1>2, <1>3

-----------------------------------------------------------------------------
seeding == <<time, seed, seedNow, lockedBy, demos, kills>>

\* A zone that keeps its offset takes a time there and back.
LEMMA ClockKept ==
    ASSUME NEW u \in Int, NEW d \in Int
    PROVE  ToUtc(ToLocal(u, DemoZone) + d, DemoZone) = u + d
  BY SeedAssumption, SMT DEF Zones, ToLocal, ToUtc, Later

\* The window a seed creates, of the now that it has read: never refused.
LEMMA DemoWindow ==
    ASSUME NEW u \in Nat
    PROVE  LET starts == ToLocal(u, DemoZone) + StartIn
               ends == starts + Duration
           IN  /\ Accepts(starts, ends, DemoZone)
               /\ Window(starts, ends, DemoZone)
                    = [starts |-> u + StartIn, ends |-> u + StartIn + Duration]
<1>1. ToLocal(u, DemoZone) \in Int
  BY SeedAssumption, SMT DEF Zones, ToLocal
<1>2. /\ StartIn \in Int /\ StartIn + Duration \in Int
      /\ ToLocal(u, DemoZone) + StartIn + Duration
            = ToLocal(u, DemoZone) + (StartIn + Duration)
      /\ u + StartIn + Duration = u + (StartIn + Duration)
  BY <1>1, SeedAssumption, SMT
<1>3. /\ ToUtc(ToLocal(u, DemoZone) + StartIn, DemoZone) = u + StartIn
      /\ ToUtc(ToLocal(u, DemoZone) + (StartIn + Duration), DemoZone)
            = u + (StartIn + Duration)
  BY <1>2, ClockKept
<1>4. /\ ToLocal(u, DemoZone) + StartIn < ToLocal(u, DemoZone) + StartIn + Duration
      /\ u + StartIn < u + (StartIn + Duration)
  BY <1>1, SeedAssumption, SMT
<1>5. QED
  BY <1>2, <1>3, <1>4 DEF Window, Accepts

-----------------------------------------------------------------------------
(***************************************************************************)
(* The invariant of all rows and processes.                                *)
(***************************************************************************)
LEMMA AccountsTyped ==
    ASSUME AccountsType, AccountsNext
    PROVE  AccountsType'
<1>1. ASSUME NEW r \in Regs, RegisterCheck(r) PROVE AccountsType'
  BY <1>1 DEF RegisterCheck, AccountsType
<1>2. ASSUME NEW r \in Regs, RegisterCommit(r) PROVE AccountsType'
  <2>1. EmailOf(r) \in Spellings /\ Password[r] \in Passwords
    BY AccountsAssumption DEF EmailOf, Normalised
  <2>2. QED
    BY <1>2, <2>1 DEF RegisterCommit, AccountsType, Row
<1>3. ASSUME NEW l \in Logins, LoginVerify(l) \/ LoginCommit(l) \/ Logout(l)
      PROVE  AccountsType'
  <2>1. users' = users /\ reg' = reg
    BY <1>3 DEF LoginVerify, LoginCommit, Logout
  <2>2. login' \in [Logins -> {"new", "verified", "in", "refused", "out"}]
    BY <1>3 DEF LoginVerify, LoginCommit, Logout, AccountsType
  <2>3. QED
    BY <2>1, <2>2 DEF AccountsType
<1>4. QED
  BY <1>1, <1>2, <1>3 DEF AccountsNext

-----------------------------------------------------------------------------
(***************************************************************************)
(* The table of users: what the two statements that write to it keep.      *)
(***************************************************************************)
UserRows ==
    users \subseteq [id : Regs \cup Seeds, email : Spellings,
                     password : Passwords, role : {"buyer", "shop"}]

ShopRow(u) ==
    u.email = Lower[ShopEmail] /\ u.password = ShopPassword /\ u.role = "shop"

\* Rows are lowercase, and an email has one.
UniqueLower ==
    /\ UserRows
    /\ \A u \in users : Lower[u.email] = u.email
    /\ \A u, v \in users : u.email = v.email => u = v

LEMMA Lowered ==
    ASSUME NEW x \in Spellings
    PROVE  /\ Normalised(x) = Lower[x] /\ Lower[x] \in Spellings
           /\ Lower[Lower[x]] = Lower[x]
  BY AccountsAssumption DEF Normalised

\* The INSERT of a registration: it breaks no constraint.
LEMMA Inserted ==
    ASSUME AccountsType, UniqueLower, NEW r \in Regs, RegisterCommit(r)
    PROVE  /\ UniqueLower'
           /\ users \subseteq users'
           /\ reg'[r] = "created" => Row(r, EmailOf(r), Password[r], "buyer") \in users'
           /\ reg'[r] = "taken" => \E u \in users : u.email = EmailOf(r)
<1>1. EmailOf(r) \in Spellings /\ Password[r] \in Passwords
  BY AccountsAssumption DEF EmailOf, Normalised
<1>2. CASE Insertable(EmailOf(r))
  <2> DEFINE new == Row(r, EmailOf(r), Password[r], "buyer")
  <2>1. users' = users \cup {new} /\ reg'[r] = "created"
    BY <1>2 DEF RegisterCommit, AccountsType
  <2>2. /\ new \in [id : Regs \cup Seeds, email : Spellings,
                    password : Passwords, role : {"buyer", "shop"}]
        /\ new.email = EmailOf(r)
    BY <1>1 DEF Row
  <2>3. Lower[EmailOf(r)] = EmailOf(r) /\ \A u \in users : u.email # EmailOf(r)
    BY <1>2 DEF Insertable, RowsOf
  <2> HIDE DEF new
  <2>4. UniqueLower'
    BY <2>1, <2>2, <2>3 DEF UniqueLower, UserRows
  <2>5. QED
    BY <2>1, <2>4 DEF new
<1>3. CASE ~Insertable(EmailOf(r))
  <2>1. users' = users /\ reg'[r] = "taken"
    BY <1>3 DEF RegisterCommit, AccountsType
  <2>2. Lower[EmailOf(r)] = EmailOf(r)
    BY Lowered, AccountsAssumption DEF EmailOf
  <2>3. \E u \in users : u.email = EmailOf(r)
    BY <1>3, <2>2 DEF Insertable, RowsOf
  <2>4. QED
    BY <2>1, <2>3 DEF UniqueLower, UserRows
<1>4. QED
  BY <1>2, <1>3

\* ensure_user: one statement, after which the row is the shop's; no other row
\* is touched, and none is gone.
LEMMA ShopUpserted ==
    ASSUME UniqueLower, NEW s \in Seeds,
           users' = Upserted(s, Normalised(ShopEmail), ShopPassword, "shop")
    PROVE  /\ UniqueLower'
           /\ \E u \in users' : ShopRow(u)
           /\ \A u \in users : u.email # Lower[ShopEmail] => u \in users'
           /\ \A u \in users : \E v \in users' : v.email = u.email
<1> DEFINE e == Lower[ShopEmail]
<1>1. /\ Normalised(ShopEmail) = e
      /\ e \in Spellings /\ Lower[e] = e /\ ShopPassword \in Passwords
  BY Lowered, SeedAssumption
<1>2. CASE RowsOf(e) = {}
  <2> DEFINE new == Row(s, e, ShopPassword, "shop")
  <2>1. users' = users \cup {new}
    BY <1>1, <1>2 DEF Upserted
  <2>2. /\ new \in [id : Regs \cup Seeds, email : Spellings,
                    password : Passwords, role : {"buyer", "shop"}]
        /\ ShopRow(new) /\ new.email = e
    BY <1>1 DEF Row, ShopRow
  <2>3. \A u \in users : u.email # e
    BY <1>2 DEF RowsOf
  <2> HIDE DEF new, e
  <2>4. UniqueLower'
    BY <1>1, <2>1, <2>2, <2>3 DEF UniqueLower, UserRows
  <2>5. QED
    BY <2>1, <2>2, <2>4
<1>3. CASE RowsOf(e) # {}
  <2>1. PICK old \in users : old.email = e
    BY <1>3 DEF RowsOf
  <2> DEFINE new == [old EXCEPT !.password = ShopPassword, !.role = "shop"]
  <2>2. old \in [id : Regs \cup Seeds, email : Spellings,
                password : Passwords, role : {"buyer", "shop"}]
    BY DEF UniqueLower, UserRows
  <2>3. /\ new \in [id : Regs \cup Seeds, email : Spellings,
                    password : Passwords, role : {"buyer", "shop"}]
        /\ new.email = e /\ new.password = ShopPassword /\ new.role = "shop"
    BY <1>1, <2>1, <2>2
  <2>4. RowsOf(e) = {old}
    BY <2>1 DEF RowsOf, UniqueLower
  <2>5. users' = (users \ {old}) \cup {new}
    BY <1>1, <1>3, <2>4 DEF Upserted
  <2>6. ShopRow(new)
    BY <2>3 DEF ShopRow
  <2>7. \A u \in users : u.email = e => u = old
    BY <2>1 DEF UniqueLower
  <2> HIDE DEF new, e
  <2>8. UniqueLower'
    BY <1>1, <2>3, <2>5, <2>7 DEF UniqueLower, UserRows
  <2>9. /\ \E u \in users' : ShopRow(u)
        /\ \A u \in users : u.email # e => u \in users'
        /\ \A u \in users : \E v \in users' : v.email = u.email
    BY <2>1, <2>3, <2>5, <2>6, <2>7
  <2>10. QED
    BY <2>8, <2>9 DEF e
<1>4. QED
  BY <1>2, <1>3

-----------------------------------------------------------------------------
(***************************************************************************)
(* Types: a seed that checks or creates owns the lock.                     *)
(***************************************************************************)
LEMMA RowsInv == Spec => [](TypeOK /\ UniqueLower)
<1>1. Init => TypeOK /\ UniqueLower
  BY SeedAssumption DEF Init, TypeOK, AccountsInit, AccountsType, UniqueLower, UserRows
<1>2. TypeOK /\ UniqueLower /\ [Next]_vars => TypeOK' /\ UniqueLower'
  <2> SUFFICES ASSUME TypeOK, UniqueLower, [Next]_vars
               PROVE  TypeOK' /\ UniqueLower'
    OBVIOUS
  <2>1. CASE UNCHANGED vars
    BY <2>1 DEF vars, accounts, TypeOK, AccountsType, UniqueLower, UserRows
  <2>2. CASE Advance
    <3>1. AccountsType' /\ UniqueLower'
      BY <2>2 DEF Advance, accounts, TypeOK, AccountsType, UniqueLower, UserRows
    <3>2. time' \in 0 .. MaxTime /\ 0 .. time \subseteq 0 .. time'
      BY <2>2, SeedAssumption DEF Advance, TypeOK
    <3>3. QED
      BY <2>2, <3>1, <3>2 DEF Advance, TypeOK
  <2>3. CASE AccountsNext /\ UNCHANGED seeding
    <3>1. AccountsType'
      BY <2>3, AccountsTyped DEF TypeOK
    <3>2. UniqueLower'
      <4>1. ASSUME NEW r \in Regs, RegisterCommit(r) PROVE UniqueLower'
        BY <4>1, Inserted DEF TypeOK
      <4>2. CASE users' = users
        BY <4>2 DEF UniqueLower, UserRows
      <4>3. QED
        BY <2>3, <4>1, <4>2
           DEF AccountsNext, RegisterCheck, LoginVerify, LoginCommit, Logout
    <3>3. QED
      BY <2>3, <3>1, <3>2 DEF seeding, TypeOK
  <2>4. ASSUME NEW s \in Seeds, SeedUser(s) PROVE TypeOK' /\ UniqueLower'
    <3>1. UniqueLower'
      BY <2>4, ShopUpserted DEF SeedUser
    <3>2. AccountsType'
      BY <2>4, <3>1 DEF SeedUser, UniqueLower, UserRows, TypeOK, AccountsType
    <3>3. QED
      BY <2>4, <3>1, <3>2 DEF SeedUser, TypeOK
  <2>5. ASSUME NEW s \in Seeds, SeedCreate(s) PROVE TypeOK' /\ UniqueLower'
    <3>1. seedNow[s] \in Nat
      BY DEF TypeOK
    <3>2. demos' = demos \cup {[by |-> s, window |->
            [starts |-> seedNow[s] + StartIn, ends |-> seedNow[s] + StartIn + Duration]]}
      BY <2>5, <3>1, DemoWindow DEF SeedCreate
    <3>3. seedNow[s] + StartIn \in Nat /\ seedNow[s] + StartIn + Duration \in Nat
      BY <3>1, SeedAssumption
    <3>4. demos' \subseteq [by : Seeds, window : [starts : Nat, ends : Nat]]
      BY <3>2, <3>3 DEF TypeOK
    <3>5. QED
      BY <2>5, <3>4 DEF SeedCreate, accounts, TypeOK, AccountsType, UniqueLower, UserRows
  <2>6. ASSUME NEW s \in Seeds,
               SeedStart(s) \/ SeedLock(s) \/ SeedCheck(s) \/ SeedKilled(s)
        PROVE  TypeOK' /\ UniqueLower'
    <3>1. AccountsType' /\ UniqueLower' /\ time' = time /\ demos' = demos
      BY <2>6 DEF SeedStart, SeedLock, SeedCheck, SeedKilled, accounts, TypeOK,
                  AccountsType, UniqueLower, UserRows
    <3>2. seedNow' \in [Seeds -> 0 .. time]
      BY <2>6, SeedAssumption DEF SeedStart, SeedLock, SeedCheck, SeedKilled, TypeOK
    <3>3. /\ seed' \in [Seeds -> {"off", "user", "lock", "check", "create", "done"}]
          /\ lockedBy' \in Seeds \cup {NoSeed}
          /\ kills' \in 0 .. MaxKills
      BY <2>6, SeedAssumption DEF SeedStart, SeedLock, SeedCheck, SeedKilled, TypeOK
    <3>4. \A q \in Seeds : seed'[q] \in {"check", "create"} => lockedBy' = q
      BY <2>6, SeedAssumption
         DEF SeedStart, SeedLock, SeedCheck, SeedKilled, LockFree, TypeOK
    <3>5. QED
      BY <3>1, <3>2, <3>3, <3>4 DEF TypeOK
  <2>7. QED
    BY <2>1, <2>2, <2>3, <2>4, <2>5, <2>6 DEF Next, SeedStep, seeding
<1>3. QED
  BY <1>1, <1>2, PTL DEF Spec

\* Every row and every process has its type; a seed that checks or creates owns
\* the lock.
THEOREM TypeCorrect == Spec => []TypeOK
BY RowsInv, PTL

\* "Emails are stored lowercase so the plain UNIQUE is case-insensitive"
\* (user.py:15-17): one account per email, however registrations overlap.
THEOREM OneAccount == Spec => []OneAccountPerEmail
<1>1. UniqueLower => OneAccountPerEmail
  BY DEF UniqueLower, OneAccountPerEmail
<1>2. QED
  BY RowsInv, <1>1, PTL

-----------------------------------------------------------------------------
(***************************************************************************)
(* What requests and seeds have been told stays true of the table.         *)
(***************************************************************************)
\* Who was told of an account that is not the shop's can log in to it.
CreatedStays ==
    \A r \in Regs : reg[r] = "created" /\ EmailOf(r) # Lower[ShopEmail] =>
        \E u \in users : u.email = EmailOf(r) /\ u.password = Password[r]

TakenStays ==
    \A r \in Regs : reg[r] = "taken" => \E u \in users : u.email = EmailOf(r)

ShopStays ==
    (\E s \in Seeds : seed[s] \in {"lock", "check", "create", "done"}) =>
        \E u \in users : ShopRow(u)

ToldTrue == CreatedStays /\ TakenStays /\ ShopStays

\* A table that has lost nothing of what was told before.
LEMMA NothingLost ==
    ASSUME ToldTrue,
           \A u \in users : u.email # Lower[ShopEmail] => u \in users',
           \A u \in users : \E v \in users' : v.email = u.email
    PROVE  \A r \in Regs :
            /\ reg[r] = "created" /\ EmailOf(r) # Lower[ShopEmail] =>
                    \E u \in users' : u.email = EmailOf(r) /\ u.password = Password[r]
            /\ reg[r] = "taken" => \E u \in users' : u.email = EmailOf(r)
<1> SUFFICES ASSUME NEW r \in Regs
             PROVE  /\ reg[r] = "created" /\ EmailOf(r) # Lower[ShopEmail] =>
                        \E u \in users' : u.email = EmailOf(r) /\ u.password = Password[r]
                    /\ reg[r] = "taken" => \E u \in users' : u.email = EmailOf(r)
  OBVIOUS
<1>1. ASSUME reg[r] = "created", EmailOf(r) # Lower[ShopEmail]
      PROVE  \E u \in users' : u.email = EmailOf(r) /\ u.password = Password[r]
  <2>1. PICK u \in users : u.email = EmailOf(r) /\ u.password = Password[r]
    BY <1>1 DEF ToldTrue, CreatedStays
  <2>2. u \in users'
    BY <1>1, <2>1
  <2>3. QED
    BY <2>1, <2>2
<1>2. ASSUME reg[r] = "taken" PROVE \E u \in users' : u.email = EmailOf(r)
  <2>1. PICK u \in users : u.email = EmailOf(r)
    BY <1>2 DEF ToldTrue, TakenStays
  <2>2. PICK v \in users' : v.email = u.email
    OBVIOUS
  <2>3. QED
    BY <2>1, <2>2
<1>3. QED
  BY <1>1, <1>2

LEMMA ToldInv == Spec => []ToldTrue
<1>1. Init => ToldTrue
  BY DEF Init, AccountsInit, ToldTrue, CreatedStays, TakenStays, ShopStays
<1>2. TypeOK /\ UniqueLower /\ ToldTrue /\ [Next]_vars => ToldTrue'
  <2> SUFFICES ASSUME TypeOK, UniqueLower, ToldTrue, [Next]_vars PROVE ToldTrue'
    OBVIOUS
  <2>1. ASSUME NEW r \in Regs, RegisterCheck(r), UNCHANGED seeding PROVE ToldTrue'
    <3>1. users' = users /\ seed' = seed
      BY <2>1 DEF RegisterCheck, seeding
    <3>2. \A q \in Regs :
            \/ reg'[q] \in {reg[q], "hashing"}
            \/ reg'[q] = "taken" /\ \E u \in users : u.email = EmailOf(q)
      <4>1. \A q \in Regs : q # r => reg'[q] = reg[q]
        BY <2>1 DEF RegisterCheck, TypeOK, AccountsType
      <4>2. reg'[r] = IF RowsOf(EmailOf(r)) # {} THEN "taken" ELSE "hashing"
        BY <2>1 DEF RegisterCheck, TypeOK, AccountsType
      <4>3. RowsOf(EmailOf(r)) # {} => \E u \in users : u.email = EmailOf(r)
        BY DEF RowsOf
      <4>4. QED
        BY <4>1, <4>2, <4>3
    <3>3. QED
      BY <3>1, <3>2 DEF ToldTrue, CreatedStays, TakenStays, ShopStays, EmailOf
  <2>2. ASSUME NEW r \in Regs, RegisterCommit(r), UNCHANGED seeding PROVE ToldTrue'
    <3>1. users \subseteq users'
      BY <2>2, Inserted DEF TypeOK
    <3>2. /\ reg'[r] = "created" => Row(r, EmailOf(r), Password[r], "buyer") \in users'
          /\ reg'[r] = "taken" => \E u \in users : u.email = EmailOf(r)
      BY <2>2, Inserted DEF TypeOK
    <3>3. \A q \in Regs : q # r => reg'[q] = reg[q]
      BY <2>2 DEF RegisterCommit, TypeOK, AccountsType
    <3>4. CreatedStays'
      BY <3>1, <3>2, <3>3 DEF ToldTrue, CreatedStays, EmailOf, Row
    <3>5. TakenStays'
      BY <3>1, <3>2, <3>3 DEF ToldTrue, TakenStays, EmailOf
    <3>6. ShopStays'
      BY <2>2, <3>1 DEF seeding, ToldTrue, ShopStays, ShopRow
    <3>7. QED
      BY <3>4, <3>5, <3>6 DEF ToldTrue
  <2>3. ASSUME NEW s \in Seeds, SeedUser(s) PROVE ToldTrue'
    <3>1. /\ \E u \in users' : ShopRow(u)
          /\ \A u \in users : u.email # Lower[ShopEmail] => u \in users'
          /\ \A u \in users : \E v \in users' : v.email = u.email
      BY <2>3, ShopUpserted DEF SeedUser
    <3>2. reg' = reg
      BY <2>3 DEF SeedUser
    <3>3. CreatedStays' /\ TakenStays'
      BY <3>1, <3>2, NothingLost DEF CreatedStays, TakenStays, EmailOf
    <3>4. ShopStays'
      BY <3>1 DEF ShopStays, ShopRow
    <3>5. QED
      BY <3>3, <3>4 DEF ToldTrue
  <2>4. CASE /\ users' = users /\ reg' = reg
             /\ \A s \in Seeds : seed'[s] \in {"lock", "check", "create", "done"}
                    => seed[s] \in {"lock", "check", "create", "done"}
    BY <2>4 DEF ToldTrue, CreatedStays, TakenStays, ShopStays, EmailOf, ShopRow
  <2>5. ASSUME NEW s \in Seeds, \/ SeedStart(s) \/ SeedLock(s) \/ SeedCheck(s)
                                 \/ SeedCreate(s) \/ SeedKilled(s)
        PROVE  ToldTrue'
    <3>1. users' = users /\ reg' = reg
      BY <2>5 DEF SeedStart, SeedLock, SeedCheck, SeedCreate, SeedKilled, accounts
    <3>2. \A q \in Seeds : seed'[q] \in {"lock", "check", "create", "done"}
                    => seed[q] \in {"lock", "check", "create", "done"}
      BY <2>5 DEF SeedStart, SeedLock, SeedCheck, SeedCreate, SeedKilled, TypeOK
    <3>3. QED
      BY <2>4, <3>1, <3>2
  <2>6. QED
    BY <2>1, <2>2, <2>3, <2>4, <2>5
       DEF Next, SeedStep, AccountsNext, LoginVerify, LoginCommit, Logout,
           Advance, vars, accounts, seeding
<1>3. QED
  BY <1>1, <1>2, RowsInv, PTL DEF Spec

\* "email already registered" is said of registered emails only.
THEOREM TakenTrue == Spec => []TakenIsTrue
<1>1. ToldTrue => TakenIsTrue
  BY DEF ToldTrue, TakenStays, TakenIsTrue, RowsOf, EmailOf, Normalised
<1>2. QED
  BY ToldInv, <1>1, PTL

\* After a seed the shop can log in, whoever registers its email and whenever.
THEOREM ShopReady == Spec => []ShopAccountReady
<1>1. ToldTrue => ShopAccountReady
  BY DEF ToldTrue, ShopStays, ShopAccountReady, ShopRow
<1>2. QED
  BY ToldInv, <1>1, PTL

\* A buyer with an account is let in, whatever else is going on.
THEOREM BuyersLetIn == Spec => RegisteredCanLogIn
<1>1. TypeOK /\ UniqueLower /\ ToldTrue /\ [Next]_vars =>
        [\A l \in Logins :
            login[l] = "new" /\ login'[l] = "refused" =>
                ~\E r \in Regs : /\ reg[r] = "created"
                                 /\ Lower[Typed[r]] = Lower[Typed[l]]
                                 /\ Password[r] = Password[l]
                                 /\ Lower[Typed[r]] # Lower[ShopEmail]]_vars
  <2> SUFFICES ASSUME TypeOK, UniqueLower, ToldTrue, [Next]_vars,
                      NEW l \in Logins, login[l] = "new", login'[l] = "refused",
                      NEW r \in Regs, reg[r] = "created",
                      Lower[Typed[r]] = Lower[Typed[l]], Password[r] = Password[l],
                      Lower[Typed[r]] # Lower[ShopEmail]
               PROVE  FALSE
    OBVIOUS
  <2>1. EmailOf(r) = Lower[Typed[r]] /\ EmailOf(l) = EmailOf(r)
    BY DEF EmailOf, Normalised
  <2>2. LoginVerify(l)
    <3>1. \A k \in Logins : LoginVerify(k) \/ LoginCommit(k) \/ Logout(k) => k = l
      BY DEF LoginVerify, LoginCommit, Logout, TypeOK, AccountsType
    <3>2. login' # login
      OBVIOUS
    <3>3. ~LoginCommit(l) /\ ~Logout(l)
      BY DEF LoginCommit, Logout
    <3>4. QED
      BY <3>1, <3>2, <3>3
         DEF Next, AccountsNext, RegisterCheck, RegisterCommit, Advance, SeedStep, SeedStart,
             SeedUser, SeedLock, SeedCheck, SeedCreate, SeedKilled, vars, accounts
  <2>3. PICK u \in users : u.email = EmailOf(l) /\ u.password = Password[l]
    BY <2>1 DEF ToldTrue, CreatedStays
  <2>4. \A v \in RowsOf(EmailOf(l)) : v = u
    BY <2>3 DEF UniqueLower, RowsOf
  <2>5. u \in RowsOf(EmailOf(l))
    BY <2>3 DEF RowsOf
  <2>6. login'[l] = "verified"
    BY <2>2, <2>3, <2>4, <2>5 DEF LoginVerify, TypeOK, AccountsType
  <2>7. QED
    BY <2>6
<1>2. QED
  BY RowsInv, ToldInv, <1>1, PTL DEF Spec, RegisteredCanLogIn

-----------------------------------------------------------------------------
(***************************************************************************)
(* The demo sales.  Between its check and its commit a seed owns the lock, *)
(* so what it found is still so when it creates.                           *)
(***************************************************************************)
NoneLive ==
    \A s \in Seeds : seed[s] = "create" =>
        \A d \in demos : d.window.ends <= seedNow[s]

LEMMA DemoInv == Spec => [](NoneLive /\ OneLiveDemo /\ DemoLeft)
<1>1. Init => NoneLive /\ OneLiveDemo /\ DemoLeft
  BY DEF Init, NoneLive, OneLiveDemo, DemoLeft
<1>2. TypeOK /\ NoneLive /\ OneLiveDemo /\ DemoLeft /\ [Next]_vars
        => NoneLive' /\ OneLiveDemo' /\ DemoLeft'
  <2> SUFFICES ASSUME TypeOK, NoneLive, OneLiveDemo, DemoLeft, [Next]_vars
               PROVE  NoneLive' /\ OneLiveDemo' /\ DemoLeft'
    OBVIOUS
  <2>1. CASE UNCHANGED <<seed, seedNow, demos>>
    BY <2>1 DEF NoneLive, OneLiveDemo, DemoLeft
  <2>2. ASSUME NEW s \in Seeds, \/ SeedStart(s) \/ SeedUser(s) \/ SeedLock(s)
                                 \/ SeedKilled(s)
        PROVE  NoneLive' /\ OneLiveDemo' /\ DemoLeft'
    <3>1. demos' = demos /\ seed'[s] \notin {"create", "done"}
      BY <2>2 DEF SeedStart, SeedUser, SeedLock, SeedKilled, TypeOK
    <3>2. \A q \in Seeds : q # s => seed'[q] = seed[q] /\ seedNow'[q] = seedNow[q]
      BY <2>2 DEF SeedStart, SeedUser, SeedLock, SeedKilled, TypeOK
    <3>3. QED
      BY <3>1, <3>2 DEF NoneLive, OneLiveDemo, DemoLeft
  <2>3. ASSUME NEW s \in Seeds, SeedCheck(s)
        PROVE  NoneLive' /\ OneLiveDemo' /\ DemoLeft'
    <3>1. demos' = demos /\ seedNow' = seedNow
      BY <2>3 DEF SeedCheck
    <3>2. \A q \in Seeds : q # s => seed'[q] = seed[q]
      BY <2>3 DEF SeedCheck, TypeOK
    <3>3. seedNow[s] \in Int /\ \A d \in demos : d.window.ends \in Int
      BY DEF TypeOK
    <3>4. \/ seed'[s] = "done" /\ \E d \in demos : d.window.ends > seedNow[s]
          \/ seed'[s] = "create" /\ \A d \in demos : d.window.ends <= seedNow[s]
      BY <2>3, <3>3 DEF SeedCheck, Live, TypeOK
    <3>5. QED
      BY <3>1, <3>2, <3>4 DEF NoneLive, OneLiveDemo, DemoLeft
  <2>4. ASSUME NEW s \in Seeds, SeedCreate(s)
        PROVE  NoneLive' /\ OneLiveDemo' /\ DemoLeft'
    <3> DEFINE new == [by |-> s, window |->
            [starts |-> seedNow[s] + StartIn, ends |-> seedNow[s] + StartIn + Duration]]
    <3>1. seedNow[s] \in Nat
      BY DEF TypeOK
    <3>2. demos' = demos \cup {new} /\ seedNow' = seedNow
      BY <2>4, <3>1, DemoWindow DEF SeedCreate
    <3>3. /\ seed[s] = "create" /\ seed'[s] = "done"
          /\ \A q \in Seeds : q # s => seed'[q] = seed[q] /\ seed[q] # "create"
      BY <2>4 DEF SeedCreate, TypeOK
    <3>4. /\ \A d \in demos : d.window.ends \in Int /\ d.window.ends <= seedNow[s]
          /\ new.window.starts = seedNow[s] + StartIn
          /\ new.window.ends = seedNow[s] + StartIn + Duration
      BY <3>3 DEF TypeOK, NoneLive
    <3> HIDE DEF new
    <3>5. (\A d \in demos : d.window.ends <= new.window.starts) /\ new.window.ends > seedNow[s]
      BY <3>1, <3>4, SeedAssumption
    <3>6. NoneLive'
      BY <3>3 DEF NoneLive
    <3>7. OneLiveDemo'
      BY <3>2, <3>5 DEF OneLiveDemo
    <3>8. DemoLeft'
      BY <3>2, <3>3, <3>5 DEF DemoLeft
    <3>9. QED
      BY <3>6, <3>7, <3>8
  <2>5. QED
    BY <2>1, <2>2, <2>3, <2>4 DEF Next, SeedStep, Advance, vars
<1>3. QED
  BY <1>1, <1>2, TypeCorrect, PTL DEF Spec

\* Seeds "can't create two live demo sales" (seed.py:48-50).
THEOREM DemosApart == Spec => []OneLiveDemo
BY DemoInv, PTL

\* A seed never leaves "the storefront with only a long-ended sale"
\* (seed.py:43-45), by its own now.
THEOREM DemoThere == Spec => []DemoLeft
BY DemoInv, PTL

=============================================================================
