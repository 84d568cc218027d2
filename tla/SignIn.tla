------------------------------- MODULE SignIn -------------------------------
(***************************************************************************)
(* Signing in: services/auth.py, web/security.py and the routes of         *)
(* web/views.py.  There is one administrator and one browser, whose cookie *)
(* carries the epoch it was issued in; requests of several tabs go on at   *)
(* once, and attempts to sign in or to change the password are counted     *)
(* together.  Not here: the launch and CSRF tokens, the rules for new      *)
(* passwords but that they are new, and the logs.                          *)
(***************************************************************************)
EXTENDS Integers

CONSTANTS Window,      \* tabs
          Password, Default, NoPassword,
          MaxFailures  \* LoginThrottle: max_failures

ASSUME SignInAssumption ==
  Default \in Password /\ NoPassword \notin Password /\ MaxFailures \in Nat \ {0}

VARIABLES
  password, \* admin_password
  attempts, \* LoginThrottle: _attempts
  locked,   \* LoginThrottle: _locked_until has not passed
  epoch,    \* SessionEpoch
  session,  \* the epoch in the session cookie; -1: nobody has signed in
  attempt,  \* of each tab: its request
  tries,    \* bound: the requests each tab may still send
  served    \* history: attempts let through since a password was right or a lock passed

signInVars == <<password, attempts, locked, epoch, session, attempt, tries, served>>
throttleVars == <<attempts, locked, served>>

NoAttempt == [step |-> "idle", typed |-> NoPassword, new |-> NoPassword, stored |-> NoPassword]
Attempt == [step : {"idle", "signing in", "entering", "changing", "replacing", "replaced"},
            typed : Password \cup {NoPassword}, new : Password \cup {NoPassword},
            stored : Password \cup {NoPassword}]
IsSignedIn == session = epoch

SignInTypeOK ==
  /\ password \in Password \cup {NoPassword}
  /\ attempts \in 0 .. MaxFailures - 1 /\ locked \in BOOLEAN
  /\ epoch \in Nat /\ session \in -1 .. epoch
  /\ attempt \in [Window -> Attempt]
  /\ served \in Nat

SignInInit ==
  /\ attempts = 0 /\ locked = FALSE /\ epoch = 0 /\ session = -1
  /\ attempt = [w \in Window |-> NoAttempt] /\ served = 0
-----------------------------------------------------------------------------
(* Deviations the run must be able to see                                  *)
ReplaceAnyway(w) == TRUE                \* without AND setting_value = ?
CountsOneMore == attempts >= MaxFailures
GuessIsForgiven ==                      \* counts_as_failure forgotten
  attempts' = 0 /\ locked' = FALSE /\ UNCHANGED served
-----------------------------------------------------------------------------
(* seed_admin: INSERT OR IGNORE.                                           *)
SeedAdmin ==
  password' = IF password = NoPassword THEN Default ELSE password

(* LoginThrottle.reset, after a password that was right; and begin_attempt *)
(* for an attempt that may proceed.                                        *)
Reset == attempts' = 0 /\ locked' = FALSE
Proved == Reset /\ served' = 0

IsLast == attempts + 1 >= MaxFailures

Count ==
  /\ served' = served + 1
  /\ IF IsLast THEN attempts' = 0 /\ locked' = TRUE
               ELSE attempts' = attempts + 1 /\ UNCHANGED locked

Unlock ==                               \* lock_seconds pass
  /\ locked /\ locked' = FALSE /\ served' = 0
  /\ UNCHANGED <<password, attempts, epoch, session, attempt, tries>>

Sends(w) == attempt[w].step = "idle" /\ tries[w] > 0 /\ tries' = [tries EXCEPT ![w] = @ - 1]
Leaves(w) == attempt' = [attempt EXCEPT ![w] = NoAttempt]
Turns(w, step) == attempt' = [attempt EXCEPT ![w].step = step]

(* POST /login and POST /account/password: while locked they are refused.  *)
Begin(w, step, typed, new) ==
  /\ Sends(w) /\ (step = "changing" => IsSignedIn)
  /\ IF locked THEN UNCHANGED <<throttleVars, attempt>>
     ELSE /\ Count
          /\ attempt' = [attempt EXCEPT ![w] = [NoAttempt EXCEPT !.step = step, !.typed = typed, !.new = new]]
  /\ UNCHANGED <<password, epoch, session>>

(* Either may be right or wrong, and is counted before that is known.      *)
login_post(w) == \E p \in Password : Begin(w, "signing in", p, p)
change_password(w) == \E p, q \in Password : Begin(w, "changing", p, q)

(* check_credentials: a right password clears the count.                   *)
check_credentials(w) == attempt[w].typed = password

Check(w) ==
  /\ attempt[w].step = "signing in"
  /\ IF check_credentials(w) THEN Proved /\ Turns(w, "entering")
                             ELSE Leaves(w) /\ UNCHANGED throttleVars
  /\ UNCHANGED <<password, epoch, session, tries>>

(* _begin_authenticated_session: a new cookie of the present epoch.        *)
Enter(w) ==
  /\ attempt[w].step = "entering"
  /\ session' = epoch /\ Leaves(w)
  /\ UNCHANGED <<password, epoch, tries, throttleVars>>

(* change_password reads the password and compares it; only a wrong one    *)
(* stays counted as a failure.                                             *)
GuessCounts == UNCHANGED throttleVars

Compare(w) ==
  /\ attempt[w].step = "changing"
  /\ IF attempt[w].typed # password THEN Leaves(w) /\ GuessCounts
     ELSE IF attempt[w].new = password THEN Leaves(w) /\ Proved
     ELSE /\ attempt' = [attempt EXCEPT ![w].step = "replacing", ![w].stored = password]
          /\ UNCHANGED throttleVars
  /\ UNCHANGED <<password, epoch, session, tries>>

(* Compare-and-set: only if the password is still the one that was read.   *)
IsStill(w) == password = attempt[w].stored

Replace(w) ==
  /\ attempt[w].step = "replacing"
  /\ IF IsStill(w) THEN password' = attempt[w].new /\ Turns(w, "replaced") /\ UNCHANGED throttleVars
                   ELSE Leaves(w) /\ Proved /\ UNCHANGED password
  /\ UNCHANGED <<epoch, session, tries>>

(* The sessions issued so far end, this one goes on.                       *)
Renew(w) ==
  /\ attempt[w].step = "replaced"
  /\ Proved /\ epoch' = epoch + 1 /\ session' = epoch + 1 /\ Leaves(w)
  /\ UNCHANGED <<password, tries>>

(* POST /logout.                                                           *)
LogOut(w) ==
  /\ Sends(w) /\ IsSignedIn
  /\ epoch' = epoch + 1 /\ session' = -1
  /\ UNCHANGED <<password, attempt, throttleVars>>

SignInNext ==
  \/ Unlock
  \/ \E w \in Window :
       \/ login_post(w) \/ change_password(w)
       \/ Check(w) \/ Enter(w) \/ Compare(w) \/ Replace(w) \/ Renew(w) \/ LogOut(w)

(* The application ends; the next one has a new key for its cookies.       *)
ForgetSessions ==
  /\ attempts' = 0 /\ locked' = FALSE /\ served' = 0 /\ epoch' = 0 /\ session' = -1
  /\ attempt' = [w \in Window |-> NoAttempt]
-----------------------------------------------------------------------------
(* Whoever replaces the password has typed the one that is replaced: of    *)
(* two changes at once that have both read it, only one is made (auth.py:  *)
(* 88), and seeding at the next start replaces none (auth.py:41).          *)
ChangesAreProved ==
  [][password' # password /\ password # NoPassword =>
       \E w \in Window : attempt[w].step = "replacing" /\ attempt[w].typed = password]_signInVars

(* However requests of several tabs overlap, no more than max_failures     *)
(* attempts, of both kinds together, are let through before a password is  *)
(* right or a lock has passed (auth.py:121, views.py:130).                 *)
AttemptsAreBounded == served <= MaxFailures
=============================================================================
