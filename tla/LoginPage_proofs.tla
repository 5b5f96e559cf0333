-------------------------- MODULE LoginPage_proofs --------------------------
(***************************************************************************)
(* Proofs about the login page, for any users and any number of calls      *)
(* under way.  A password's n is what tells a typed one from a hash, so    *)
(* the invariant says which of the two each place holds.                   *)
(***************************************************************************)
EXTENDS LoginPage, TLAPS

Secrets == [of : Users \cup {None}, n : Nat]
Logins == {c \in calls : c.op = "login"}

Places ==
    /\ passField \in Secrets
    /\ saved \in Secrets \cup {None} /\ cryptoPassword \in Secrets \cup {None}

\* While no cookie has run out, a cookie holds a hash, without one the field holds
\* what was typed, and what loginFunc left in the global is a hash.
Hashes ==
    ~expired =>
        /\ saved = None => passField.n = 0
        /\ saved # None => saved.n = 1
        /\ cryptoPassword # None => cryptoPassword.n = 1
        /\ Logins # {} /\ cryptoPassword = None => passField.n = 0

\* What the cookies and the global hold was hashed, whatever ran out.
Hashed == (saved # None => saved.n >= 1) /\ (cryptoPassword # None => cryptoPassword.n >= 1)

\* While the form is left alone, the one login under way is that of the form.
Alone == ~touched => \A c \in Logins : c.arg = userField /\ c.pass = cryptoPassword

LoginInv == Places /\ Hashes /\ Hashed /\ SentHashedOnce /\ Alone /\ RememberedWorks

\* Hashing once more.
LEMMA HashOnce ==
    ASSUME NEW x \in Secrets PROVE hex_md5(x) \in Secrets /\ hex_md5(x).n = x.n + 1
BY DEF hex_md5, Secrets

LEMMA LoginInit == Init => LoginInv
BY DEF Init, LoginInv, Places, Secrets, Hashes, Hashed, Logins, SentHashedOnce, Alone, RememberedWorks, Empty, Secret

\* A page that is loaded has no call under way and takes its fields from the cookies.
LEMMA AfterLoad ==
    ASSUME LoginInv, NEW p, OnLoad(p, savedUser, saved), UNCHANGED <<savedUser, saved>> PROVE LoginInv'
<1>1. calls' = {} /\ Logins' = {} /\ cryptoPassword' = None BY DEF OnLoad, Logins
<1>2. passField' = IF saved = None THEN Empty ELSE saved BY DEF OnLoad
<1>3. saved' = saved /\ savedUser' = savedUser /\ touched' = touched /\ expired' = expired BY DEF OnLoad
<1>4. Empty \in Secrets /\ Empty.n = 0 BY DEF Empty, Secret, Secrets
<1>5. Places' BY <1>1, <1>2, <1>3, <1>4 DEF LoginInv, Places
<1>6. Hashes' /\ Hashed' BY <1>1, <1>2, <1>3, <1>4 DEF LoginInv, Hashes, Hashed
<1>7. SentHashedOnce' /\ Alone' BY <1>1 DEF SentHashedOnce, Alone
<1>8. RememberedWorks' BY <1>3 DEF LoginInv, RememberedWorks
<1>q. QED BY <1>5, <1>6, <1>7, <1>8 DEF LoginInv

\* A click of loginFunc: the password that is sent is a hash, and what is sent is
\* what the form holds.
LEMMA AfterClick == ASSUME LoginInv, NEW typed, loginFunc(typed) PROVE LoginInv'
<1>1. cryptoPassword' = PasswordToSend /\ UNCHANGED <<saved, savedUser, userField, passField, expired>>
  BY DEF loginFunc
<1>2. \/ calls' = calls \cup {[op |-> "login", arg |-> userField, pass |-> PasswordToSend]}
      \/ calls' = calls
  BY DEF loginFunc
<1>3. touched' = (touched \/ calls # {}) BY DEF loginFunc, Touch
<1>4. PasswordToSend \in Secrets BY HashOnce DEF PasswordToSend, LoginInv, Places
<1>5. ~expired => PasswordToSend.n = 1
  <2>1. CASE saved # None BY <2>1 DEF PasswordToSend, LoginInv, Hashes
  <2>2. CASE saved = None
    <3>1. ~expired => passField.n = 0 BY <2>2 DEF LoginInv, Hashes
    <3>2. hex_md5(passField).n = passField.n + 1 BY HashOnce DEF LoginInv, Places
    <3>q. QED BY <2>2, <3>1, <3>2 DEF PasswordToSend
  <2>q. QED BY <2>1, <2>2
<1>11. PasswordToSend.n >= 1
  <2>1. CASE saved # None BY <2>1 DEF PasswordToSend, LoginInv, Hashed
  <2>2. CASE saved = None
    <3>1. hex_md5(passField).n = passField.n + 1 /\ passField.n \in Nat BY HashOnce DEF LoginInv, Places, Secrets
    <3>q. QED BY <2>2, <3>1 DEF PasswordToSend
  <2>q. QED BY <2>1, <2>2
<1>12. Hashed' BY <1>1, <1>11 DEF LoginInv, Hashed
<1>6. Places' BY <1>1, <1>4 DEF LoginInv, Places
<1>7. Hashes'
  <2>1. saved # None /\ ~expired => saved.n = 1 BY DEF LoginInv, Hashes
  <2>2. saved = None /\ ~expired => passField.n = 0 BY DEF LoginInv, Hashes
  <2>3. PasswordToSend = None => saved = None BY DEF PasswordToSend
  <2>q. QED BY <1>1, <1>5, <2>1, <2>2, <2>3 DEF Hashes
<1>8. SentHashedOnce' BY <1>1, <1>2, <1>5, <1>11 DEF LoginInv, SentHashedOnce
<1>9. Alone'
  <2>. SUFFICES ASSUME ~touched', NEW c \in Logins' PROVE c.arg = userField' /\ c.pass = cryptoPassword'
    BY DEF Alone
  <2>1. calls = {} BY <1>3
  <2>2. c \in calls' BY DEF Logins
  <2>3. c = [op |-> "login", arg |-> userField, pass |-> PasswordToSend] BY <1>2, <2>1, <2>2
  <2>q. QED BY <1>1, <2>3
<1>10. RememberedWorks' BY <1>1, <1>3 DEF LoginInv, RememberedWorks
<1>q. QED BY <1>6, <1>7, <1>8, <1>9, <1>10, <1>12 DEF LoginInv

\* The answer of a login: what is saved is what was sent, if the form was left alone.
LEMMA AfterAnswer == ASSUME LoginInv, NEW c \in calls, LoginAnswer(c) PROVE LoginInv'
<1>1. CASE c.pass # Secret(c.arg, 1) BY <1>1, AfterLoad DEF LoginAnswer
<1>2. CASE c.pass = Secret(c.arg, 1)
  <2>1. /\ calls' = {} /\ UNCHANGED <<userField, passField, cryptoPassword, touched, expired>>
        /\ savedUser' = IF remember THEN userField ELSE savedUser
        /\ saved' = IF remember THEN cryptoPassword ELSE saved
    BY <1>2 DEF LoginAnswer, SavedPassword
  <2>2. Logins' = {} /\ c \in Logins BY <2>1 DEF Logins, LoginAnswer
  <2>3. Places' BY <2>1 DEF LoginInv, Places
  <2>4. Hashes' /\ Hashed' BY <2>1, <2>2 DEF LoginInv, Hashes, Hashed
  <2>5. SentHashedOnce' /\ Alone' BY <2>1, <2>2 DEF SentHashedOnce, Alone
  <2>6. ~touched => c.arg = userField /\ c.pass = cryptoPassword BY <2>2 DEF LoginInv, Alone
  <2>7. RememberedWorks' BY <1>2, <2>1, <2>6 DEF LoginInv, RememberedWorks
  <2>q. QED BY <2>3, <2>4, <2>5, <2>7 DEF LoginInv
<1>q. QED BY <1>1, <1>2

\* Steps that leave the form and the cookies and start or end no login.
LEMMA FormSame == ASSUME LoginInv, UNCHANGED formVars, Logins' \subseteq Logins PROVE LoginInv'
<1>1. UNCHANGED <<savedUser, saved, userField, passField, cryptoPassword, touched, expired>> BY DEF formVars
<1>2. Places' /\ RememberedWorks' BY <1>1 DEF LoginInv, Places, RememberedWorks
<1>3. Hashes' /\ Hashed' BY <1>1 DEF LoginInv, Hashes, Hashed
<1>4. SentHashedOnce' BY <1>1 DEF LoginInv, SentHashedOnce, Logins
<1>5. Alone' BY <1>1 DEF LoginInv, Alone
<1>q. QED BY <1>2, <1>3, <1>4, <1>5 DEF LoginInv

LEMMA LoginStep == LoginInv /\ [Next]_vars => LoginInv'
<1>. SUFFICES ASSUME LoginInv, [Next]_vars PROVE LoginInv' OBVIOUS
<1>1. ASSUME NEW p, Open(p) PROVE LoginInv' BY <1>1, AfterLoad DEF Open
<1>2. ASSUME NEW u \in Users \cup {None}, pswdOnFocus(u) PROVE LoginInv'
  <2>1. /\ saved' = None /\ cryptoPassword' = None /\ passField' = Secret(u, 0)
        /\ touched' = (touched \/ calls # {}) /\ UNCHANGED <<savedUser, userField, expired, calls>>
    BY <1>2 DEF pswdOnFocus, Touch
  <2>2. Secret(u, 0) \in Secrets /\ Secret(u, 0).n = 0 BY DEF Secret, Secrets
  <2>3. Places' /\ Hashes' /\ Hashed' BY <2>1, <2>2 DEF Places, Hashes, Hashed
  <2>4. SentHashedOnce' /\ RememberedWorks' BY <2>1 DEF LoginInv, SentHashedOnce, RememberedWorks
  <2>5. Alone' BY <2>1 DEF Alone, Logins
  <2>q. QED BY <2>3, <2>4, <2>5 DEF LoginInv
<1>3. ASSUME NEW u \in Users \cup {None}, TypeUser(u) PROVE LoginInv'
  <2>1. /\ touched' = (touched \/ calls # {})
        /\ UNCHANGED <<saved, cryptoPassword, passField, savedUser, expired, calls>>
    BY <1>3 DEF TypeUser, Touch
  <2>2. Places' /\ Hashes' /\ Hashed' BY <2>1 DEF LoginInv, Places, Hashes, Hashed, Logins
  <2>3. SentHashedOnce' /\ RememberedWorks' BY <2>1 DEF LoginInv, SentHashedOnce, RememberedWorks
  <2>4. Alone' BY <2>1 DEF Alone, Logins
  <2>q. QED BY <2>2, <2>3, <2>4 DEF LoginInv
<1>4. ASSUME onchange PROVE LoginInv'
  <2>1. /\ touched' = (touched \/ calls # {}) /\ UNCHANGED <<userField, cryptoPassword, expired, calls>>
        /\ \/ savedUser' = None /\ saved' = None /\ passField' = Empty
           \/ UNCHANGED <<savedUser, saved, passField>>
    BY <1>4 DEF onchange, Touch, Forget
  <2>2. Empty \in Secrets /\ Empty.n = 0 BY DEF Empty, Secret, Secrets
  <2>3. Places' BY <2>1, <2>2 DEF LoginInv, Places
  <2>4. Hashes' /\ Hashed' BY <2>1, <2>2 DEF LoginInv, Hashes, Hashed, Logins
  <2>5. SentHashedOnce' /\ RememberedWorks' BY <2>1 DEF LoginInv, SentHashedOnce, RememberedWorks
  <2>6. Alone' BY <2>1 DEF Alone, Logins
  <2>q. QED BY <2>3, <2>4, <2>5, <2>6 DEF LoginInv
<1>5. ASSUME refresh PROVE LoginInv'
  <2>1. UNCHANGED <<savedUser, saved, userField, passField, cryptoPassword, touched, expired, calls>>
    BY <1>5 DEF refresh
  <2>2. Places' /\ Hashes' /\ Hashed' /\ RememberedWorks'
    BY <2>1 DEF LoginInv, Places, Hashes, Hashed, Logins, RememberedWorks
  <2>3. SentHashedOnce' /\ Alone' BY <2>1 DEF LoginInv, SentHashedOnce, Alone, Logins
  <2>q. QED BY <2>2, <2>3 DEF LoginInv
<1>6. ASSUME NEW typed, loginFunc(typed) PROVE LoginInv' BY <1>6, AfterClick
<1>7. ASSUME NEW c \in calls, LoginAnswer(c) PROVE LoginInv' BY <1>7, AfterAnswer
<1>8. ASSUME Expire PROVE LoginInv'
  <2>1. /\ saved' = None /\ savedUser' = None /\ expired' = TRUE
        /\ UNCHANGED <<userField, passField, cryptoPassword, touched, calls>>
    BY <1>8 DEF Expire
  <2>2. Places' /\ Hashes' /\ Hashed' BY <2>1 DEF LoginInv, Places, Hashes, Hashed
  <2>3. SentHashedOnce' /\ RememberedWorks' BY <2>1 DEF LoginInv, SentHashedOnce, RememberedWorks
  <2>4. Alone' BY <2>1 DEF LoginInv, Alone, Logins
  <2>q. QED BY <2>2, <2>3, <2>4 DEF LoginInv
<1>9. ASSUME getCode \/ \E typed \in 0..asked : submitform(typed) PROVE LoginInv'
  <2>1. UNCHANGED formVars /\ Logins' = Logins BY <1>9 DEF getCode, submitform, Logins
  <2>q. QED BY <2>1, FormSame
<1>10. ASSUME NEW c \in calls, SmsAnswer(c) \/ RegisterAnswer(c) \/ Lose(c) PROVE LoginInv'
  <2>1. UNCHANGED formVars /\ Logins' \subseteq Logins BY <1>10 DEF SmsAnswer, RegisterAnswer, Lose, Logins
  <2>q. QED BY <2>1, FormSame
<1>11. ASSUME Tick PROVE LoginInv'
  <2>1. UNCHANGED formVars /\ Logins' = Logins BY <1>11 DEF Tick, setDaoJiShi, Logins
  <2>q. QED BY <2>1, FormSame
<1>12. CASE UNCHANGED vars
  <2>1. UNCHANGED formVars /\ Logins' = Logins BY <1>12 DEF vars, Logins
  <2>q. QED BY <2>1, FormSame
<1>q. QED BY <1>1, <1>2, <1>3, <1>4, <1>5, <1>6, <1>7, <1>8, <1>9, <1>10, <1>11, <1>12
          DEF Next, LoginClicks, RegisterClicks, Answer

LEMMA LoginAlways == Spec => []LoginInv
BY LoginInit, LoginStep, PTL DEF Spec

\* loginFunc never sends a password in the clear, for any number of clicks, pages and
\* answers; and it sends one hashed exactly once as long as no cookie ran out under an
\* open page.  After that the hash that fills the field is hashed again.
THEOREM AlwaysHashedOnce == Spec => []SentHashedOnce
<1>1. LoginInv => SentHashedOnce BY DEF LoginInv
<1>q. QED BY LoginAlways, <1>1, PTL

\* The cookies that the callback of loginFunc leaves are a user's name with the hash of
\* that user's password, as long as the form was left alone while a call was under way.
THEOREM AlwaysWorks == Spec => []RememberedWorks
<1>1. LoginInv => RememberedWorks BY DEF LoginInv
<1>q. QED BY LoginAlways, <1>1, PTL
=============================================================================
