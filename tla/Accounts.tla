------------------------------ MODULE Accounts ------------------------------
(***************************************************************************)
(* Accounts and logins (app/services/auth.py, app/routers/auth.py).  Each  *)
(* request reads the users, spends a while in a thread on a password hash  *)
(* and only then writes, so any number of them overlap between the read    *)
(* and the write.  An email is a model value; several spellings may        *)
(* normalise to one email.  A hash is the password it was made of.         *)
(***************************************************************************)
EXTENDS Naturals, FiniteSets

CONSTANTS
    Spellings,      \* emails as they are typed
    Lower,          \* [Spellings -> Spellings]: strip().lower()
    Passwords,
    Regs,           \* POST /auth/register
    Logins,         \* POST /auth/login, and the session it starts
    Typed,          \* the email and the password of each of these requests
    Password

ASSUME AccountsAssumption ==
    /\ Lower \in [Spellings -> Spellings]
    /\ \A x \in Spellings : Lower[Lower[x]] = Lower[x]
    /\ Typed \in [Regs \cup Logins -> Spellings]
    /\ Password \in [Regs \cup Logins -> Passwords]

VARIABLES
    users,          \* the rows of users; id: what created them
    reg,            \* how far a registration has got, or its answer
    login           \* the same of a login

accounts == <<users, reg, login>>

\* An email as it was typed.
Normalised_AsTyped(x) == x

\* CredentialsRequest and ensure_user.
Normalised(x) == Lower[x]

EmailOf(q) == Normalised(Typed[q])

Row(id, email, password, role) ==
    [id |-> id, email |-> email, password |-> password, role |-> role]

RowsOf(email) == {u \in users : u.email = email}

AccountsType ==
    /\ \A u \in users : /\ u.email \in Spellings
                        /\ u.password \in Passwords
                        /\ u.role \in {"buyer", "shop"}
    /\ reg \in [Regs -> {"new", "hashing", "created", "taken"}]
    /\ login \in [Logins -> {"new", "verified", "in", "refused", "out"}]

AccountsInit ==
    /\ users = {}
    /\ reg = [r \in Regs |-> "new"]
    /\ login = [l \in Logins |-> "new"]

\* register, up to the hash.
RegisterCheck(r) ==
    /\ reg[r] = "new"
    /\ reg' = [reg EXCEPT ![r] = IF RowsOf(EmailOf(r)) # {} THEN "taken" ELSE "hashing"]
    /\ UNCHANGED <<users, login>>

\* The check before the hash is all there is.
Insertable_Checked(email) == Lower[email] = email

\* users.email is unique, and CHECK (email = lower(email)).
Insertable(email) ==
    /\ Lower[email] = email
    /\ RowsOf(email) = {}

\* Whatever constraint the INSERT breaks, the answer is that the email is taken.
RegisterCommit(r) ==
    /\ reg[r] = "hashing"
    /\ IF Insertable(EmailOf(r))
       THEN /\ users' = users \cup {Row(r, EmailOf(r), Password[r], "buyer")}
            /\ reg' = [reg EXCEPT ![r] = "created"]
       ELSE /\ reg' = [reg EXCEPT ![r] = "taken"]
            /\ UNCHANGED users
    /\ UNCHANGED login

\* INSERT ... ON CONFLICT DO NOTHING
Upserted_DoNothing(id, email, password, role) ==
    IF RowsOf(email) # {} THEN users
    ELSE users \cup {Row(id, email, password, role)}

\* ensure_user: one statement, INSERT ... ON CONFLICT (email) DO UPDATE.
Upserted(id, email, password, role) ==
    (users \ RowsOf(email)) \cup
    (IF RowsOf(email) = {} THEN {Row(id, email, password, role)}
     ELSE {[u EXCEPT !.password = password, !.role = role] : u \in RowsOf(email)})

\* login: the row is read once, and its hash verified in a thread; the session
\* is inserted afterwards.
LoginVerify(l) ==
    /\ login[l] = "new"
    /\ \/ /\ RowsOf(EmailOf(l)) = {}
          /\ login' = [login EXCEPT ![l] = "refused"]
       \/ \E u \in RowsOf(EmailOf(l)) :
            login' = [login EXCEPT ![l] = IF u.password = Password[l]
                                           THEN "verified" ELSE "refused"]
    /\ UNCHANGED <<users, reg>>

LoginCommit(l) ==
    /\ login[l] = "verified"
    /\ login' = [login EXCEPT ![l] = "in"]
    /\ UNCHANGED <<users, reg>>

\* logout: the session's row is selected and deleted.  Deleting a row that a
\* second logout has deleted meanwhile changes nothing.
Logout(l) ==
    /\ login[l] = "in"
    /\ login' = [login EXCEPT ![l] = "out"]
    /\ UNCHANGED <<users, reg>>

AccountsNext ==
    \/ \E r \in Regs : RegisterCheck(r) \/ RegisterCommit(r)
    \/ \E l \in Logins : LoginVerify(l) \/ LoginCommit(l) \/ Logout(l)

-----------------------------------------------------------------------------

\* However many registrations of one email overlap, and whatever spelling each
\* uses, there is one account (user.py:15-17, auth.py:49-62).
OneAccountPerEmail ==
    \A u, v \in users : Lower[u.email] = Lower[v.email] => u = v

\* "email already registered" is only said of one that is (routers/auth.py:
\* 48-51): the code says it for any constraint an INSERT may break.
TakenIsTrue ==
    \A r \in Regs : reg[r] = "taken" => RowsOf(Lower[Typed[r]]) # {}

=============================================================================
