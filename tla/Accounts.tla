------------------------------ MODULE Accounts ------------------------------
(* auth/local-auth.server.ts with its callers: the accounts of app_users, the bot's
   first sign-in, which adopts the id that owns the data already there, the tokens,
   and the session a browser keeps.  A password is the one its owner chose. *)
EXTENDS Naturals, FiniteSets
CONSTANTS People,      \* e-mail addresses of those who sign up
          BotEmail,    \* RUNNER_EMAIL; its password is RUNNER_PASSWORD
          Clients,     \* who signs in as the bot: the runner, an operator's tab
          Legacy,      \* an id that owns data from before app_users
          MaxUsers,      \* bounds
          MaxRotations

ASSUME AccountsAssumption ==
    /\ BotEmail \notin People /\ MaxUsers \in Nat /\ MaxRotations \in Nat
    /\ Legacy \notin 1..MaxUsers /\ IsFiniteSet(Clients)

VARIABLES users,     \* app_users: rows [id, email, pass]
          owners,    \* the ids in runner_state and paper_accounts
          fresh,     \* the next random UUID
          step,      \* of each client's sign-in as the bot
          browser,   \* the session in localStorage, of each person: [id, email, key]
          secret,    \* LOCAL_AUTH_SECRET, or what DATABASE_URL gives
          opening    \* clients between the read of paper_accounts and the insert

accountVars == <<users, owners, fresh, step, browser, secret, opening>>

Emails == People \cup {BotEmail}
UserIds == 1..MaxUsers \cup {Legacy}
NoToken == [id |-> Legacy]
Out == [phase |-> "out"]
RowsOf(email) == {u \in users : u.email = email}
IdsThere == {u.id : u \in users}

AccountsInit ==
    /\ users = {} /\ fresh = 1 /\ secret = 0
    /\ owners \in SUBSET {Legacy}
    /\ step = [c \in Clients |-> Out]
    /\ browser = [p \in People |-> NoToken]
    /\ opening = {}

(* signToken, verifyLocalToken *)
Token(id, email) == [id |-> id, email |-> email, key |-> secret]
Accepted(t) == t.key = secret

(* signUpLocal, by someone else than the operator: INSERT .. ON CONFLICT DO NOTHING *)
SignUp(email) ==
    /\ RowsOf(email) = {} /\ fresh <= MaxUsers
    /\ users' = users \cup {[id |-> fresh, email |-> email, pass |-> email]}
    /\ fresh' = fresh + 1
    /\ browser' = IF email \in People THEN [browser EXCEPT ![email] = Token(fresh, email)] ELSE browser
    /\ UNCHANGED <<owners, step, secret, opening>>

(* signInLocal of someone who has a row *)
SignIn(p) ==
    /\ \E u \in RowsOf(p) :
          /\ u.pass = p
          /\ browser' = [browser EXCEPT ![p] = Token(u.id, u.email)]
    /\ UNCHANGED <<users, owners, fresh, step, secret, opening>>

(* mirrorSupabaseUser: a Supabase user's own id and password, once signed in there.
   An id already there under another address is a conflict, and is swallowed. *)
MirrorUser(p) ==
    /\ users' = IF RowsOf(p) # {} THEN {IF u.email = p THEN [u EXCEPT !.pass = p] ELSE u : u \in users}
                ELSE IF Legacy \in IdsThere THEN users
                ELSE users \cup {[id |-> Legacy, email |-> p, pass |-> p]}
    /\ users' # users
    /\ UNCHANGED <<owners, fresh, step, browser, secret, opening>>

----------------------------------------------------------------------------
(* The bot's sign-in, one query at a time.  SELECT by e-mail first *)
Select(c) ==
    /\ step[c].phase = "out"
    /\ IF RowsOf(BotEmail) # {}
       THEN \E u \in RowsOf(BotEmail) :
               /\ u.pass = BotEmail
               /\ step' = [step EXCEPT ![c] = [phase |-> "in", id |-> u.id]]
       ELSE step' = [step EXCEPT ![c] = [phase |-> "adopting"]]
    /\ UNCHANGED <<users, owners, fresh, browser, secret, opening>>

(* adoptExistingOwnerId: the first of the owners, in the order the database likes *)
Adopt(c) ==
    /\ step[c].phase = "adopting"
    /\ IF owners # {}
       THEN \E id \in owners : step' = [step EXCEPT ![c] = [phase |-> "claiming", id |-> id, among |-> owners]]
            /\ UNCHANGED fresh
       ELSE /\ fresh <= MaxUsers /\ fresh' = fresh + 1
            /\ step' = [step EXCEPT ![c] = [phase |-> "claiming", id |-> fresh, among |-> owners]]
    /\ UNCHANGED <<users, owners, browser, secret, opening>>

(* UPDATE app_users SET email, password_hash WHERE id: a row of another id that has
   the e-mail by now breaks the UNIQUE constraint, and the sign-in fails *)
Claim(c) ==
    /\ step[c].phase = "claiming"
    /\ LET id == step[c].id
           taken == \E u \in RowsOf(BotEmail) : u.id # id
       IN  IF id \notin IdsThere THEN step' = [step EXCEPT ![c].phase = "inserting"] /\ UNCHANGED users
           ELSE IF taken THEN step' = [step EXCEPT ![c] = Out] /\ UNCHANGED users
           ELSE /\ users' = {IF u.id = id THEN [u EXCEPT !.email = BotEmail, !.pass = BotEmail] ELSE u : u \in users}
                /\ step' = [step EXCEPT ![c].phase = "in"]
    /\ UNCHANGED <<owners, fresh, browser, secret, opening>>

Insert_OwnId(c) ==
    /\ step[c].phase = "inserting"
    /\ RowsOf(BotEmail) = {} => step[c].id \notin IdsThere
    /\ users' = IF RowsOf(BotEmail) # {} THEN users
                ELSE users \cup {[id |-> step[c].id, email |-> BotEmail, pass |-> BotEmail]}
    /\ step' = [step EXCEPT ![c].phase = "in"]
    /\ UNCHANGED <<owners, fresh, browser, secret, opening>>

(* INSERT .. ON CONFLICT (email) DO UPDATE SET password_hash RETURNING id; the id
   may have come by another row meanwhile, and then the insert fails *)
Insert(c) ==
    /\ step[c].phase = "inserting"
    /\ IF RowsOf(BotEmail) # {}
       THEN \E u \in RowsOf(BotEmail) :
               /\ users' = (users \ {u}) \cup {[u EXCEPT !.pass = BotEmail]}
               /\ step' = [step EXCEPT ![c] = [phase |-> "in", id |-> u.id, among |-> step[c].among]]
       ELSE IF step[c].id \in IdsThere
       THEN step' = [step EXCEPT ![c] = Out] /\ UNCHANGED users
       ELSE /\ users' = users \cup {[id |-> step[c].id, email |-> BotEmail, pass |-> BotEmail]}
            /\ step' = [step EXCEPT ![c].phase = "in"]
    /\ UNCHANGED <<owners, fresh, browser, secret, opening>>

(* loadBootState of a signed-in client: the account is read, and inserted when it is
   not there; a second client's insert is refused and its boot fails *)
ReadAccount(c) ==
    /\ step[c].phase = "in" /\ c \notin opening /\ step[c].id \notin owners
    /\ opening' = opening \cup {c}
    /\ UNCHANGED <<users, owners, fresh, step, browser, secret>>

InsertAccount(c) ==
    /\ c \in opening
    /\ step' = IF step[c].id \in owners THEN [step EXCEPT ![c] = Out] ELSE step
    /\ owners' = owners \cup {step[c].id} /\ opening' = opening \ {c}
    /\ UNCHANGED <<users, fresh, browser, secret>>

(* A person's dashboard does the same *)
OpenDashboard(p) ==
    /\ browser[p] # NoToken /\ Accepted(browser[p]) /\ browser[p].id \notin owners
    /\ owners' = owners \cup {browser[p].id}
    /\ UNCHANGED <<users, fresh, step, browser, secret, opening>>

(* The process of a client starts anew *)
Leave(c) ==
    /\ step[c].phase # "out"
    /\ step' = [step EXCEPT ![c] = Out] /\ opening' = opening \ {c}
    /\ UNCHANGED <<users, owners, fresh, browser, secret>>

Rotate ==
    /\ secret < MaxRotations
    /\ secret' = secret + 1
    /\ UNCHANGED <<users, owners, fresh, step, browser, opening>>

(* Signed out, or thirty days later: getLocalSession drops what has expired *)
Forget(p) ==
    /\ browser[p] # NoToken
    /\ browser' = [browser EXCEPT ![p] = NoToken]
    /\ UNCHANGED <<users, owners, fresh, step, secret, opening>>

AccountsNext ==
    \/ \E e \in Emails : SignUp(e)
    \/ \E p \in People : SignIn(p) \/ MirrorUser(p) \/ OpenDashboard(p) \/ Forget(p)
    \/ \E c \in Clients : Select(c) \/ Adopt(c) \/ Claim(c) \/ Insert(c)
                          \/ ReadAccount(c) \/ InsertAccount(c) \/ Leave(c)
    \/ Rotate

AccountsSpec == AccountsInit /\ [][AccountsNext]_accountVars

----------------------------------------------------------------------------
AccountsTypeOK ==
    /\ \A u \in users : u.id \in UserIds /\ u.email \in Emails /\ u.pass \in Emails
    /\ \A u, v \in users : u.id = v.id \/ u.email = v.email => u = v
    /\ owners \subseteq UserIds /\ fresh \in 1..(MaxUsers + 1) /\ opening \subseteq Clients
    /\ \A p \in People : browser[p] = NoToken \/ browser[p].key \in 0..secret

(* All who are signed in as the bot at one time are the same user, the runner and the
   operator's tab alike, whoever came first and however their queries interleaved:
   they drive the same book. *)
OneBot ==
    \A c, d \in Clients : step[c].phase = "in" /\ step[d].phase = "in" => step[c].id = step[d].id

(* Whoever is signed in has a row: no token outlives the id it was issued for. *)
TokensHaveRows ==
    /\ \A p \in People : browser[p] # NoToken => browser[p].id \in IdsThere
    /\ \A c \in Clients : step[c].phase = "in" => step[c].id \in IdsThere

(* An id, once there, is never lost, and an address is never moved from one id to
   another: whatever data hangs on an id stays reachable under it. *)
BindingsHold ==
    [][/\ IdsThere \subseteq {u.id : u \in users'}
       /\ \A u \in users, v \in users' : u.email = v.email => u.id = v.id]_accountVars

(* The bot is given the one owner of the data already there, unless its address had
   been signed up before. *)
OwnerAdopted ==
    [][\A c \in Clients :
          step[c].phase \in {"claiming", "inserting"} /\ step'[c].phase = "in"
             /\ step[c].among = {Legacy} /\ RowsOf(BotEmail) = {} =>
          step'[c].id = Legacy]_accountVars

(* Refuted, see README: with two owners of data the bot may adopt the id of a person,
   whose address and password are then gone; and a browser keeps a session that the
   server has refused since its secret changed. *)
PeopleKeepTheirAddress == [][\A u \in users : u.email \in People => \E v \in users' : v.email = u.email]_accountVars
SessionServed == \A p \in People : browser[p] # NoToken => Accepted(browser[p])

(* Whoever signs in, in whatever order, there is one bot with one book, every token has its
   row, and an id keeps its address. *)
AccountsKeep == [](AccountsTypeOK /\ OneBot /\ TokensHaveRows) /\ BindingsHold /\ OwnerAdopted

=============================================================================
