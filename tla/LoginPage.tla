----------------------------- MODULE LoginPage -----------------------------
(***************************************************************************)
(* The login page (user.js, gVerify.js) and the registration page          *)
(* (register.js) of the web client.  Both keep values in cookies and in    *)
(* globals that the callback of an ajax call reads again when the answer   *)
(* comes, whatever the user has done to the fields in the meantime.  The   *)
(* countdown of the registration page is an interval timer per SMS code.   *)
(*                                                                         *)
(* A password is named after the user it belongs to; n counts how often    *)
(* hex_md5 was applied.  A picture code is a number, GVerify.options.code  *)
(* the sequence of all that were drawn since the page was loaded.          *)
(***************************************************************************)
EXTENDS Integers, Sequences, FiniteSets

CONSTANTS Users,
          None,       \* an empty field, an absent cookie
          Wait,       \* seconds of the countdown, 60 in the code
          MaxOpen,    \* bound: calls under way at the same time
          MaxCodes    \* bound: SMS codes asked for, picture codes drawn, pages loaded

ASSUME CountdownAssumption == Wait \in Nat \ {0, 1}

VARIABLES
    page,                 \* "login", "register" or "in"
    savedUser, saved,     \* the cookies username and password
    userField, passField, \* usernameInput, passwordInput
    remember,             \* the checkbox remember
    cryptoPassword,       \* the global
    code,                 \* verifyCode.options.code
    calls,                \* ajax calls under way: [op, arg, pass]
    touched,              \* history: the form was used while a login was under way
    expired,              \* history: the cookies ran out while a page was open
    asked,                \* SMS codes asked for
    smscode,              \* the code that was answered last, 0 before
    smsCookie,            \* the cookie smscode
    timers,               \* intervals that are running
    currentDaoJIshi,      \* the interval the page remembers
    leveltime, label,     \* seconds left, text of the button
    loads                 \* pages loaded

formVars == <<savedUser, saved, userField, passField, remember, cryptoPassword, code, touched, expired>>
smsVars == <<asked, smscode, smsCookie, timers, currentDaoJIshi, leveltime, label>>
vars == <<page, formVars, calls, smsVars, loads>>

Secret(u, n) == [of |-> u, n |-> n]
Empty == Secret(None, 0)
hex_md5(x) == [x EXCEPT !.n = @ + 1]

\* Dates are set in whole days: what is kept for less than one is gone at once.
Kept(value, tenthsOfDay) == IF tenthsOfDay >= 10 THEN value ELSE 0

\* window.onload: the fields are filled from the cookies.
OnLoad(p, su, sp) ==
    /\ page' = p
    /\ userField' = su
    /\ passField' = IF sp = None THEN Empty ELSE sp
    /\ remember' = (sp # None)
    /\ cryptoPassword' = None
    /\ code' = <<1>>
    /\ calls' = {}
    /\ timers' = {} /\ currentDaoJIshi' = 0 /\ leveltime' = Wait /\ label' = "send"
    /\ UNCHANGED <<asked, smscode, smsCookie, touched, expired>>

Init ==
    /\ page = "login"
    /\ savedUser = None /\ saved = None /\ userField = None /\ passField = Empty
    /\ remember = FALSE /\ cryptoPassword = None /\ code = <<1>>
    /\ calls = {} /\ touched = FALSE /\ expired = FALSE
    /\ asked = 0 /\ smscode = 0 /\ smsCookie = 0 /\ timers = {} /\ currentDaoJIshi = 0
    /\ leveltime = Wait /\ label = "send" /\ loads = 1

\* The user opens the login or the registration page, again or after logging in.
Open(p) ==
    /\ loads < MaxCodes
    /\ loads' = loads + 1
    /\ OnLoad(p, savedUser, saved)
    /\ UNCHANGED <<savedUser, saved>>
-----------------------------------------------------------------------------
(* The login page.                                                         *)

Touch == touched' = (touched \/ calls # {})

\* The user goes into the password field and types a password, or nothing.
pswdOnFocus(u) ==
    /\ page = "login"
    /\ saved' = None
    /\ cryptoPassword' = None
    /\ passField' = Secret(u, 0)
    /\ Touch
    /\ UNCHANGED <<page, savedUser, userField, remember, code, expired, calls, smsVars, loads>>

TypeUser(u) ==
    /\ page = "login"
    /\ userField' = u
    /\ Touch
    /\ UNCHANGED <<page, savedUser, saved, passField, remember, cryptoPassword, code, expired, calls, smsVars, loads>>

Forget == savedUser' = None /\ saved' = None /\ passField' = Empty

onchange ==
    /\ page = "login"
    /\ remember' = ~remember
    /\ \/ remember /\ Forget
       \/ ~remember /\ UNCHANGED <<savedUser, saved, passField>>
    /\ Touch
    /\ UNCHANGED <<page, userField, cryptoPassword, code, expired, calls, smsVars, loads>>

\* A click on the picture draws a new code and appends it to the old ones.
refresh ==
    /\ page = "login"
    /\ Len(code) < MaxCodes
    /\ code' = Append(code, Len(code) + 1)
    /\ UNCHANGED <<page, savedUser, saved, userField, passField, remember, cryptoPassword, touched, expired,
                   calls, smsVars, loads>>

Shown == code[Len(code)]
validate(typed) == typed = code

\* The saved password goes before the field.
\* Mutant: what the field holds is always hashed.
PasswordToSend_Field == hex_md5(passField)
PasswordToSend == IF saved # None THEN saved ELSE hex_md5(passField)

\* The user types the code of the picture, or something else.
loginFunc(typed) ==
    /\ page = "login"
    /\ cryptoPassword' = PasswordToSend
    /\ \/ /\ validate(typed) /\ userField # None
          /\ Cardinality(calls) < MaxOpen
          /\ calls' = calls \cup {[op |-> "login", arg |-> userField, pass |-> PasswordToSend]}
       \/ /\ ~validate(typed) \/ userField = None
          /\ UNCHANGED calls
    /\ Touch
    /\ UNCHANGED <<page, savedUser, saved, userField, passField, remember, code, expired, smsVars, loads>>

\* The name is read from the field again and the password from the global.
\* Mutant: the password is saved as it was typed.
SavedPassword_Plain == passField
SavedPassword == cryptoPassword

\* External: the centre accepts the hash of the user's own password.
LoginAnswer(c) ==
    /\ page = "login" /\ c.op = "login"
    /\ \/ /\ c.pass = Secret(c.arg, 1)
          /\ savedUser' = IF remember THEN userField ELSE savedUser
          /\ saved' = IF remember THEN SavedPassword ELSE saved
          /\ page' = "in" /\ calls' = {}
          /\ UNCHANGED <<userField, passField, remember, cryptoPassword, code, touched, expired, smsVars>>
       \/ /\ c.pass # Secret(c.arg, 1)
          /\ OnLoad("login", savedUser, saved)
          /\ UNCHANGED <<savedUser, saved>>
    /\ UNCHANGED loads

\* The cookies are given seven days; the page may be left open for longer.
Expire ==
    /\ saved # None
    /\ saved' = None /\ savedUser' = None
    /\ expired' = TRUE
    /\ UNCHANGED <<page, userField, passField, remember, cryptoPassword, code, touched, calls, smsVars, loads>>
-----------------------------------------------------------------------------
(* The registration page.                                                  *)

\* Every code asked for is a new one, also when the call before was lost.
getCode ==
    /\ page = "register"
    /\ asked < MaxCodes /\ Cardinality(calls) < MaxOpen
    /\ asked' = asked + 1
    /\ calls' = calls \cup {[op |-> "sms", arg |-> asked + 1, pass |-> Empty]}
    /\ UNCHANGED <<page, formVars, smscode, smsCookie, timers, currentDaoJIshi, leveltime, label, loads>>

\* Mutant: the countdown goes on from where the last one stopped.
Restart_Never == UNCHANGED leveltime
Restart == leveltime' = Wait

\* A new interval is started; the one before is not cleared.
SmsAnswer(c) ==
    /\ page = "register" /\ c.op = "sms"
    /\ Restart
    /\ timers' = timers \cup {c.arg}
    /\ currentDaoJIshi' = c.arg
    /\ smscode' = c.arg
    /\ smsCookie' = Kept(c.arg, 1)
    /\ calls' = calls \ {c}
    /\ UNCHANGED <<page, formVars, asked, label, loads>>

AtZero == leveltime - 1 = 0

\* leveltime goes below zero when a second interval is running; bounded by -Wait.
setDaoJiShi(t) ==
    /\ t \in timers
    /\ leveltime > 0 - Wait
    /\ leveltime' = leveltime - 1
    /\ timers' = IF AtZero THEN timers \ {currentDaoJIshi} ELSE timers
    /\ label' = IF AtZero THEN "send" ELSE "wait"
    /\ UNCHANGED <<page, formVars, calls, asked, smscode, smsCookie, currentDaoJIshi, loads>>

\* The user types a code, 0 for none; it is compared with the cookie.
submitform(typed) ==
    /\ page = "register"
    /\ typed = smsCookie
    /\ Cardinality(calls) < MaxOpen
    /\ calls' = calls \cup {[op |-> "register", arg |-> typed, pass |-> Empty]}
    /\ UNCHANGED <<page, formVars, smsVars, loads>>

RegisterAnswer(c) ==
    /\ page = "register" /\ c.op = "register"
    /\ \/ page' = "in" /\ calls' = {} /\ timers' = {}
       \/ UNCHANGED <<page, timers>> /\ calls' = calls \ {c}
    /\ UNCHANGED <<formVars, asked, smscode, smsCookie, currentDaoJIshi, leveltime, label, loads>>

\* No handler is given for an ajax error.
Lose(c) ==
    /\ calls' = calls \ {c}
    /\ UNCHANGED <<page, formVars, smsVars, loads>>
-----------------------------------------------------------------------------
LoginClicks ==
    \/ \E u \in Users \cup {None} : pswdOnFocus(u) \/ TypeUser(u)
    \/ onchange \/ refresh
    \/ \E typed \in {<<Shown>>, <<>>} : loginFunc(typed)
RegisterClicks == getCode \/ \E typed \in 0..asked : submitform(typed)
Answer(c) == LoginAnswer(c) \/ SmsAnswer(c) \/ RegisterAnswer(c) \/ Lose(c)
Tick == \E t \in timers : setDaoJiShi(t)

Next ==
    \/ \E p \in {"login", "register"} : Open(p)
    \/ LoginClicks \/ RegisterClicks
    \/ \E c \in calls : Answer(c)
    \/ Tick
    \/ Expire

Spec == Init /\ [][Next]_vars

\* The browser fires its intervals; nobody has to click or to answer.
FairSpec == Spec /\ WF_vars(Tick)
-----------------------------------------------------------------------------
\* What the page remembers is a user name with the hash of that user's password,
\* so the next visit can log in with it, unless the form was used between a click
\* and its answer.
RememberedWorks ==
    saved # None /\ savedUser # None /\ ~touched => saved = Secret(savedUser, 1)

\* No password is sent in the clear, whatever the cookies do; and it is hashed once,
\* also when the field was filled with the hash from the cookie, unless a cookie ran
\* out while a page was open: the hash in the field is then hashed again.
SentHashedOnce ==
    \A c \in calls : c.op = "login" => c.pass.n >= 1 /\ (~expired => c.pass.n = 1)

\* An interval that is the only one and the remembered one stops: the countdown
\* ends and the button says so, unless another code was asked for or the page left.
CountdownEnds ==
    \A t \in 1..MaxCodes :
        timers = {t} /\ currentDaoJIshi = t
            ~> timers # {t} /\ (timers = {} /\ page = "register" => label = "send")
=============================================================================
