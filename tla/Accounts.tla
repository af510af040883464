------------------------------ MODULE Accounts ------------------------------
(***************************************************************************)
(* The accounts file, auth.json: users, roles and API tokens               *)
(* (dnsmaqmgr/core/auth.py, the accounts part of backup.py, and            *)
(* `app.py set-password` of cli.py).  Every edit is made by a web thread,  *)
(* or by the command line in a process of its own, that loads the whole    *)
(* file, checks and changes what it loaded, and saves the whole of it: no  *)
(* lock is held from the load to the save.  AtomicFile is the saving.      *)
(*                                                                         *)
(* Passwords, the session secret and the login throttle are left out: an   *)
(* edit of a password writes back what it loaded.  Any user may hold a     *)
(* session and any token may be presented.  require_login's loads are one  *)
(* step, but for the one a token's first use of the day makes.             *)
(***************************************************************************)
EXTENDS AtomicFile, Naturals

CONSTANTS
  Users, Tokens,
  Admin,                  \* the account ensure_bootstrap makes
  TokenRole,              \* the role each token is made with
  Requests, Main, Cli,    \* the web threads, the app's start, the command line
  Server, Shell,          \* their processes
  Backups,                \* the accounts that backup files hold
  MaxSaves                \* bound: saves begun in a behaviour

Roles == {"admin", "readonly"}

\* auth.json: the role of each user, the users that have to change the password
\* they were given, and per token whether it has been used today.
Config == [role : [Users -> Roles \cup {"none"}], must : SUBSET Users,
           token : [Tokens -> {"none", "unused", "used"}]]

ASSUME AccountAssumption ==
  /\ Admin \in Users /\ TokenRole \in [Tokens -> Roles]
  /\ Users \cap Tokens = {}
  /\ Main # Cli /\ {Main, Cli} \cap Requests = {}
  /\ Writers = Requests \cup {Main, Cli} /\ Pids = {Server, Shell}
  /\ ProcessOf = [w \in Writers |-> IF w = Cli THEN Shell ELSE Server]
  /\ Values = Config /\ Backups \subseteq Config

NoCaller == "nobody"
ASSUME BoundAssumption == MaxSaves \in Nat

ASSUME CallerAssumption == NoCaller \notin Users \cup Tokens

VARIABLES
  up,        \* the app has started
  saves,     \* how many saves have been begun
  phase,     \* per writer: what its request, start or command is about
  caller,    \* per writer: g.identity_name; the user set-password is for
  saving,    \* per writer: the configuration it has made of the one it loaded
  dropping,  \* per writer: the token it is to revoke, or nobody's
  revoked,   \* history: the tokens whose revocation has been saved
  overtaken, \* history: of these, those in another writer's hands at that moment
  misread    \* history: an edit was made of a file that could not be parsed

requests == <<phase, caller, saving, dropping>>
history  == <<revoked, overtaken, misread>>
vars     == <<fileVars, up, saves, requests, history>>

Init ==
  /\ FileInit /\ up = FALSE /\ saves = 0
  /\ phase = [w \in Writers |-> "none"] /\ caller = [w \in Writers |-> NoCaller]
  /\ saving = [w \in Writers |-> NoValue] /\ dropping = [w \in Writers |-> NoCaller]
  /\ revoked = {} /\ overtaken = {} /\ misread = FALSE

-----------------------------------------------------------------------------
(* Configurations                                                          *)

Nothing == [role |-> [u \in Users |-> "none"], must |-> {},
            token |-> [t \in Tokens |-> "none"]]

\* load_config: a file that is missing or does not parse holds no accounts.
Loaded == IF published \in Config THEN published ELSE Nothing

Exists(c, u) == c.role[u] # "none"
Admins(c) == {u \in Users : c.role[u] = "admin"}
LastAdmin(c, u) == Admins(c) = {u}
Held(c) == {t \in Tokens : c.token[t] # "none"}

\* ensure_bootstrap, when there is no user; the password is given or generated.
Bootstrapped(c, generated) ==
  [c EXCEPT !.role[Admin] = "admin", !.must = IF generated THEN @ \cup {Admin} ELSE @]

\* set-password: a user there is not becomes an administrator.
WithPassword(c, u) ==
  [c EXCEPT !.role[u] = IF Exists(c, u) THEN @ ELSE "admin", !.must = @ \ {u}]

-----------------------------------------------------------------------------
(* A request                                                               *)

Goto(w, p) == phase' = [phase EXCEPT ![w] = p]

Hold(w, c) == saving' = [saving EXCEPT ![w] = c]

\* From here on w has in hand what it is to save.
Prepare(w, c, p) ==
  /\ Hold(w, c) /\ Goto(w, p)
  /\ saves < MaxSaves /\ saves' = saves + 1

\* require_login with a session: an account that must change its password may
\* do only that.
Login(r, u) ==
  /\ up /\ phase[r] = "none" /\ Exists(Loaded, u)
  /\ Goto(r, IF u \in Loaded.must THEN "must" ELSE Loaded.role[u])
  /\ caller' = [caller EXCEPT ![r] = u]
  /\ UNCHANGED <<fileVars, up, saves, saving, dropping, history>>

\* require_login with a token, which is to be marked as used today.
Present(r, t) ==
  /\ up /\ phase[r] = "none" /\ t \in Held(Loaded)
  /\ Goto(r, IF Loaded.token[t] = "used" THEN TokenRole[t] ELSE "found")
  /\ caller' = [caller EXCEPT ![r] = t]
  /\ UNCHANGED <<fileVars, up, saves, saving, dropping, history>>

\* _touch_token loads the file again; the token may be gone from it.
Touch(r) ==
  /\ phase[r] = "found"
  /\ IF caller[r] \in Held(Loaded)
     THEN Prepare(r, [Loaded EXCEPT !.token[caller[r]] = "used"], "touch")
     ELSE Goto(r, TokenRole[caller[r]]) /\ UNCHANGED <<saves, saving>>
  /\ UNCHANGED <<fileVars, up, caller, dropping, history>>

Forget(w) == caller' = [caller EXCEPT ![w] = NoCaller]

\* The edit a handler makes of what it loads; who asked no longer matters.
Edit(r, c) ==
  /\ Prepare(r, c, "edit") /\ Forget(r)
  /\ misread' = (misread \/ published \in {Empty, Torn})
  /\ UNCHANGED <<fileVars, up, dropping, revoked, overtaken>>

CreateUser(r, u, role) ==
  /\ phase[r] = "admin" /\ ~Exists(Loaded, u)
  /\ Edit(r, [Loaded EXCEPT !.role[u] = role])

\* A mutant: the last administrator may be demoted.
SetRoleOfAny(r, u, role) ==
  /\ phase[r] = "admin" /\ Exists(Loaded, u)
  /\ Edit(r, [Loaded EXCEPT !.role[u] = role])

SetRole(r, u, role) ==
  /\ phase[r] = "admin" /\ Exists(Loaded, u)
  /\ role # "admin" => ~LastAdmin(Loaded, u)
  /\ Edit(r, [Loaded EXCEPT !.role[u] = role])

\* users_set_password: the account must still change it if it had to.
SetPassword(r, u) ==
  /\ phase[r] = "admin" /\ Exists(Loaded, u)
  /\ Edit(r, Loaded)

DeleteUser(r, u) ==
  /\ phase[r] = "admin" /\ Exists(Loaded, u)
  /\ u # caller[r] /\ ~LastAdmin(Loaded, u)
  /\ Edit(r, [Loaded EXCEPT !.role[u] = "none", !.must = @ \ {u}])

\* change_password, open to every session.
ChangePassword(r) ==
  /\ phase[r] \in {"admin", "readonly", "must"}
  /\ caller[r] \in Users /\ Exists(Loaded, caller[r])
  /\ Edit(r, [Loaded EXCEPT !.must = @ \ {caller[r]}])

\* The identifier of a token is random: it is not one that was there before.
New(t) == /\ t \notin revoked \cup Held(Loaded)
          /\ \A w \in Writers : saving[w] # NoValue => t \notin Held(saving[w])
          /\ \A b \in Backups : t \notin Held(b)

CreateToken(r, t) ==
  /\ phase[r] = "admin" /\ New(t)
  /\ Edit(r, [Loaded EXCEPT !.token[t] = "unused"])

\* A mutant: the token is marked, and stays in the list.
MarkToken(r, t) ==
  /\ phase[r] = "admin" /\ t \in Held(Loaded)
  /\ Prepare(r, [Loaded EXCEPT !.token[t] = "used"], "edit") /\ Forget(r)
  /\ dropping' = [dropping EXCEPT ![r] = t]
  /\ UNCHANGED <<fileVars, up, history>>

DeleteToken(r, t) ==
  /\ phase[r] = "admin" /\ t \in Held(Loaded)
  /\ Prepare(r, [Loaded EXCEPT !.token[t] = "none"], "edit") /\ Forget(r)
  /\ dropping' = [dropping EXCEPT ![r] = t]
  /\ UNCHANGED <<fileVars, up, history>>

\* backup_restore with accounts: a backup with no administrator is refused.  The
\* tokens of the backup are meant to be back.
Restore(r, b) ==
  /\ phase[r] = "admin" /\ Admins(b) # {}
  /\ Prepare(r, b, "edit") /\ Forget(r)
  /\ revoked' = revoked \ Held(b) /\ overtaken' = overtaken \ Held(b)
  /\ UNCHANGED <<fileVars, up, dropping, misread>>

\* A request that changes nothing: a read, or a change that is refused.
Leave(r) ==
  /\ phase[r] \in Roles \cup {"must"}
  /\ Goto(r, "none") /\ Forget(r)
  /\ UNCHANGED <<fileVars, up, saves, saving, dropping, history>>

-----------------------------------------------------------------------------
(* The start, the command line, and saving                                 *)

NoUsers == \A u \in Users : ~Exists(Loaded, u)

\* app.py: ensure_bootstrap, before the server runs.
Start ==
  /\ ~up /\ phase[Main] = "none"
  /\ \/ NoUsers /\ UNCHANGED up
        /\ \E generated \in BOOLEAN : Prepare(Main, Bootstrapped(Loaded, generated), "boot")
     \/ ~NoUsers /\ up' = TRUE /\ UNCHANGED <<saves, phase, saving>>
  /\ UNCHANGED <<fileVars, caller, dropping, history>>

\* cli_set_password, which does as a start does first.
Command(u) ==
  /\ phase[Cli] = "none"
  /\ \/ NoUsers /\ \E generated \in BOOLEAN :
                     Prepare(Cli, Bootstrapped(Loaded, generated), "boot")
     \/ ~NoUsers /\ Prepare(Cli, WithPassword(Loaded, u), "edit")
  /\ caller' = [caller EXCEPT ![Cli] = u]
  /\ UNCHANGED <<fileVars, up, dropping, history>>

\* Another writer has loaded the token: it will be back.
InHand(w, t) == \E x \in Writers \ {w} : saving[x] # NoValue /\ t \in Held(saving[x])

\* save_config up to the rename.
Save(w) ==
  /\ (saving[w] # NoValue /\ Open(w, saving[w])) \/ Write(w)
  /\ UNCHANGED <<up, saves, requests, history>>

\* The rename, from which on the token is revoked, whatever becomes of the answer.
Publish(w) ==
  LET gone == IF step'[w] = "renamed" THEN {dropping[w]} \cap Tokens ELSE {} IN
  /\ Rename(w)
  /\ revoked' = revoked \cup gone
  /\ overtaken' = (overtaken \ gone) \cup {t \in gone : InHand(w, t)}
  /\ UNCHANGED <<up, saves, requests, misread>>

\* What follows a save that succeeded: set-password goes on with what the
\* bootstrap saved, a request whose token was marked with its handler.
Continue(w) ==
  CASE phase[w] = "boot" /\ w = Cli -> Hold(w, WithPassword(saving[w], caller[w])) /\ Goto(w, "edit")
    [] phase[w] = "touch" -> Hold(w, NoValue) /\ Goto(w, TokenRole[caller[w]])
    [] OTHER -> Hold(w, NoValue) /\ Goto(w, "none")

\* The save is over, and with it the request, unless it goes on.
Saved(w) ==
  /\ step[w] = "renamed" /\ Finish(w) /\ Continue(w)
  /\ up' = (up \/ w = Main)
  /\ caller' = [caller EXCEPT ![w] = IF phase'[w] = "none" THEN NoCaller ELSE @]
  /\ dropping' = [dropping EXCEPT ![w] = NoCaller]
  /\ UNCHANGED <<saves, history>>

\* A mutant: after a save that raised, the request has it still in hand.
FailedInHand(w) ==
  /\ step[w] = "failed" /\ Finish(w)
  /\ Goto(w, "none") /\ Forget(w)
  /\ dropping' = [dropping EXCEPT ![w] = NoCaller]
  /\ UNCHANGED <<saving, up, saves, history>>

\* The save raised: the request is answered 500, the start or command fails.
Failed(w) ==
  /\ step[w] = "failed" /\ Finish(w)
  /\ Hold(w, NoValue) /\ Goto(w, "none") /\ Forget(w)
  /\ dropping' = [dropping EXCEPT ![w] = NoCaller]
  /\ UNCHANGED <<up, saves, history>>

\* A process is killed, with all its threads.
Crash(p) ==
  /\ Die(p)
  /\ phase' = [w \in Writers |-> IF ProcessOf[w] = p THEN "none" ELSE phase[w]]
  /\ caller' = [w \in Writers |-> IF ProcessOf[w] = p THEN NoCaller ELSE caller[w]]
  /\ saving' = [w \in Writers |-> IF ProcessOf[w] = p THEN NoValue ELSE saving[w]]
  /\ dropping' = [w \in Writers |-> IF ProcessOf[w] = p THEN NoCaller ELSE dropping[w]]
  /\ up' = (up /\ p # Server)
  /\ UNCHANGED <<saves, history>>

-----------------------------------------------------------------------------

Handle(r) ==
  \/ \E u \in Users : Login(r, u) \/ SetPassword(r, u) \/ DeleteUser(r, u)
  \/ \E u \in Users, role \in Roles : CreateUser(r, u, role) \/ SetRole(r, u, role)
  \/ \E t \in Tokens : Present(r, t) \/ CreateToken(r, t) \/ DeleteToken(r, t)
  \/ \E b \in Backups : Restore(r, b)
  \/ Touch(r) \/ ChangePassword(r) \/ Leave(r)

Next ==
  \/ \E r \in Requests : Handle(r)
  \/ Start \/ \E u \in Users : Command(u)
  \/ \E w \in Writers : Save(w) \/ Publish(w) \/ Saved(w) \/ Failed(w)
  \/ \E p \in Pids : Crash(p)

Spec == Init /\ [][Next]_vars

-----------------------------------------------------------------------------
(* Properties                                                              *)

Phases == Roles \cup {"none", "must", "found", "touch", "edit", "boot"}
Saving == {"touch", "edit", "boot"}

\* A writer's variables fit its phase.
Fits(w) ==
  /\ saving[w] # NoValue <=> phase[w] \in Saving
  /\ Busy(w) => wants[w] = saving[w] /\ saving[w] # NoValue
  /\ phase[w] \in {"found", "touch"} => caller[w] \in Tokens
  /\ w = Cli /\ phase[w] = "boot" => caller[w] \in Users

TypeOK ==
  /\ FileTypeOK /\ up \in BOOLEAN /\ saves \in 0..MaxSaves
  /\ phase \in [Writers -> Phases]
  /\ caller \in [Writers -> Users \cup Tokens \cup {NoCaller}]
  /\ saving \in [Writers -> Config \cup {NoValue}]
  /\ dropping \in [Writers -> Tokens \cup {NoCaller}]
  /\ overtaken \subseteq revoked /\ revoked \subseteq Tokens /\ misread \in BOOLEAN
  /\ \A w \in Writers : Fits(w)

\* However the edits of several administrators, of the command line and of a
\* restore interleave, and whenever a process dies, what is in the file has an
\* administrator: also when saves meet in it.  The exception is an edit that was
\* made of a file broken by such saves, in which load_config finds no account.
AdminRemains == published \in Config => misread \/ Admins(published) # {}

\* A token whose revocation has been saved is gone, unless another save was under
\* way with a copy of the file from before: that is the one way back.
RevokedStaysRevoked == published \in Config => revoked \cap Held(published) \subseteq overtaken
=============================================================================
