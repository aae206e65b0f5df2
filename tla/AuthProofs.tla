----------------------------- MODULE AuthProofs -----------------------------
(***************************************************************************)
(* The server authenticates who has shown enough, and no one else, for     *)
(* every set of keys, options, requests and bound on tries.  The inductive *)
(* invariant says what the server's two variables stand for: authtypes is  *)
(* the set of methods not yet passed by the user of the connection         *)
(* (Exact), and failcount, with one for the first key, accounts for every  *)
(* wrong guess (Counted).  Both rest on the requests being those of one    *)
(* user, but for names that are too long (OneUser, Named).                 *)
(***************************************************************************)
EXTENDS Auth, SequenceTheorems, WellFoundedInduction, TLAPS

\* A request that settles what it says, for a user who may log in.
ShowsPassword(r) ==
    /\ ~set.noauthpass /\ ~set.norootpass /\ ~set.blank
    /\ r.user \in set.valid /\ r.type = "password" /\ r.arg = "right"
ShowsKey(r) ==
    /\ r.user \in set.valid /\ r.type = "signed" /\ r.arg \in set.authorized \cap set.sigalgs
ShowsNone(r) ==
    /\ ~set.noauthpass /\ ~set.norootpass /\ set.blank /\ set.allowblankpass
    /\ r.user \in set.valid /\ r.type = "none"

Passwords == \E r \in shown : ShowsPassword(r)
PubKeys == \E r \in shown : ShowsKey(r)
Nones == \E r \in shown : ShowsNone(r)
Both == set.multiauth

\* What the code takes as enough: Entitled, or with -t a blank password.
Satisfies(user) ==
    \/ Entitled(user)
    \/ /\ BlankTwoFactor /\ user \in set.valid
       /\ \E r \in shown : r.user = user /\ r.type = "none"

SvrOK(s) ==
    s \in [user : {s.user}, authtypes : SUBSET {"pubkey", "password"}, failcount : Nat,
           queries : Nat, authdone : BOOLEAN, banner : BOOLEAN, opened : BOOLEAN, up : BOOLEAN]

\* Requests under way name a user.
Named(q) == \E S : q \in Seq(S) /\ \A r \in S : r.user # NoUser

\* The requests that were read are those of one user.
OneUser ==
    \A r \in shown : /\ r.user # NoUser
                     /\ svr.up => \/ r.user = svr.user \/ r.user \in LongUsers
                                  \/ r.type \in {"service", "open"}

\* The wrong guesses so far: each was counted, but for the first unknown key.
Bonus(s) == IF s.queries > 0 THEN 1 ELSE 0
IsWrong(r) == WrongSecret(r) \/ UnknownKey(r)
Counted(s, w, u) ==
    s.up => /\ s.failcount <= set.maxauthtries
            /\ u = s.queries /\ w + u <= s.failcount + Bonus(s)

\* The methods that are left, and when there is enough.
Exact ==
    /\ svr.opened => svr.authdone
    /\ svr.authdone => Satisfies(svr.user)
    /\ svr.up /\ ~svr.authdone =>
          /\ ~Nones
          /\ Both => /\ "password" \in svr.authtypes <=> ~Passwords
                     /\ "pubkey" \in svr.authtypes <=> ~PubKeys
                     /\ svr.authtypes # {}
          /\ ~Both => /\ ~Passwords /\ ~PubKeys
                      /\ svr.authtypes = {"pubkey"} \cup
                                         IF set.noauthpass THEN {} ELSE {"password"}

IInv ==
    /\ set \in Settings /\ SvrOK(svr) /\ wrong \in Nat /\ unknown \in Nat
    /\ Named(c2s) /\ OneUser /\ Counted(svr, wrong, unknown) /\ Exact

\* The types of the server's options.
LEMMA SettingTypes ==
  ASSUME IInv
  PROVE  /\ set.maxauthtries \in Nat /\ set.noauthpass \in BOOLEAN
         /\ set.norootpass \in BOOLEAN /\ set.blank \in BOOLEAN
         /\ set.allowblankpass \in BOOLEAN /\ set.multiauth \in BOOLEAN
         /\ ~(set.multiauth /\ set.noauthpass) /\ set.valid \cap LongUsers = {}
BY AuthAssumption DEF IInv, SettingOK

(***************************************************************************)
(* The server's handlers, one lemma each: what they make of its state.     *)
(***************************************************************************)

\* A failure, counted or not.
Fails(s, t, n) ==
    /\ SvrOK(t)
    /\ t.failcount = s.failcount + n
    /\ t.up = (t.failcount <= set.maxauthtries)
    /\ t.user = s.user /\ t.authtypes = s.authtypes /\ t.queries = s.queries
    /\ t.authdone = s.authdone /\ t.opened = s.opened

\* send_msg_userauth_failure counts, and exits beyond maxauthtries.
LEMMA FailureResult ==
  ASSUME NEW s, SvrOK(s), set.maxauthtries \in Nat, NEW partial, NEW incrfail \in BOOLEAN
  PROVE  Fails(s, send_msg_userauth_failure(s, partial, incrfail).svr,
               IF incrfail THEN 1 ELSE 0)
<1> DEFINE n == s.failcount + IF incrfail THEN 1 ELSE 0
           t == [s EXCEPT !.failcount = n, !.up = n <= set.maxauthtries]
<1>1. send_msg_userauth_failure(s, partial, incrfail).svr = t
  BY DEF send_msg_userauth_failure, Result
<1>2. n \in Nat /\ (n <= set.maxauthtries) \in BOOLEAN
  BY DEF SvrOK
<1>3. /\ t.failcount = n /\ t.up = (n <= set.maxauthtries)
      /\ t.user = s.user /\ t.authtypes = s.authtypes /\ t.queries = s.queries
      /\ t.authdone = s.authdone /\ t.opened = s.opened /\ t.banner = s.banner
  BY DEF SvrOK
<1>4. SvrOK(t)
  BY <1>2, <1>3 DEF SvrOK
<1>5. QED
  BY <1>1, <1>3, <1>4 DEF Fails

Succeeds(s, t) ==
    /\ SvrOK(t) /\ t.authdone
    /\ t.user = s.user /\ t.opened = s.opened /\ t.up = s.up
    /\ t.failcount = s.failcount /\ t.queries = s.queries

\* send_msg_userauth_success changes nothing but authdone.
LEMMA SuccessResult ==
  ASSUME NEW s, SvrOK(s)
  PROVE  Succeeds(s, send_msg_userauth_success(s).svr)
<1> DEFINE t == [s EXCEPT !.authdone = TRUE]
<1>1. send_msg_userauth_success(s).svr = t
  BY DEF send_msg_userauth_success, Result
<1>2. SvrOK(t) /\ Succeeds(s, t)
  BY DEF SvrOK, Succeeds
<1>3. QED
  BY <1>1, <1>2

\* A method that was passed is not asked for again.
PartlyPasses(s, t, method) ==
    /\ SvrOK(t)
    /\ t.authtypes = s.authtypes \ {method}
    /\ t.failcount = s.failcount /\ t.up = (t.failcount <= set.maxauthtries)
    /\ t.user = s.user /\ t.queries = s.queries
    /\ t.authdone = s.authdone /\ t.opened = s.opened

Passes(s, t, method) ==
    IF set.multiauth /\ s.authtypes \ {method} # {} THEN PartlyPasses(s, t, method)
    ELSE Succeeds(s, t)

\* A method that was passed ends the authentication, or with -t is crossed off.
LEMMA PassedResult ==
  ASSUME NEW s, SvrOK(s), set.maxauthtries \in Nat, NEW method
  PROVE  Passes(s, Passed(s, method).svr, method)
<1>1. CASE set.multiauth /\ s.authtypes \ {method} # {}
  <2> DEFINE u == [s EXCEPT !.authtypes = @ \ {method}]
             t == send_msg_userauth_failure(u, TRUE, FALSE).svr
  <2>1. /\ SvrOK(u) /\ u.authtypes = s.authtypes \ {method}
        /\ u.failcount = s.failcount /\ u.user = s.user /\ u.queries = s.queries
        /\ u.authdone = s.authdone /\ u.opened = s.opened
    BY DEF SvrOK
  <2>2. Passed(s, method).svr = t
    BY <1>1 DEF Passed
  <2> HIDE DEF u
  <2>3. Fails(u, t, 0)
    BY <2>1, FailureResult
  <2> HIDE DEF t
  <2>4. t.failcount = s.failcount
    BY <2>1, <2>3 DEF Fails, SvrOK
  <2>5. QED
    BY <1>1, <2>1, <2>2, <2>3, <2>4 DEF Passes, PartlyPasses, Fails
<1>2. CASE ~(set.multiauth /\ s.authtypes \ {method} # {})
  <2>1. Passed(s, method).svr = send_msg_userauth_success(s).svr
    BY <1>2 DEF Passed
  <2>2. QED
    BY <1>2, <2>1, SuccessResult DEF Passes
<1>3. QED
  BY <1>1, <1>2

\* A failed attempt: it showed nothing, and if it was a wrong guess it was
\* counted or was the first key.
Attempted(s, t, r) ==
    /\ SvrOK(t)
    /\ t.up = (t.failcount <= set.maxauthtries)
    /\ t.user = s.user /\ t.authtypes = s.authtypes
    /\ t.authdone = s.authdone /\ t.opened = s.opened
    /\ s.failcount <= t.failcount /\ t.failcount <= s.failcount + 1
    /\ t.queries = s.queries + IF UnknownKey(r) THEN 1 ELSE 0
    /\ t.failcount + Bonus(t) >= s.failcount + Bonus(s) + IF IsWrong(r) THEN 1 ELSE 0
    /\ ~ShowsPassword(r) /\ ~ShowsKey(r) /\ ~ShowsNone(r)

\* The outcomes of an attempt.
Outcome(s, t, r) ==
    \/ Attempted(s, t, r)
    \/ ShowsPassword(r) /\ Passes(s, t, "password")
    \/ ShowsKey(r) /\ Passes(s, t, "pubkey")
    \/ ShowsNone(r) /\ Succeeds(s, t)

\* A failure is an attempt, counted at least when the guess was wrong.
LEMMA FailsAttempted ==
  ASSUME NEW s, SvrOK(s), NEW t, NEW r, NEW n \in {0, 1}, Fails(s, t, n),
         WrongSecret(r) => n = 1, ~UnknownKey(r),
         ~ShowsPassword(r), ~ShowsKey(r), ~ShowsNone(r)
  PROVE  Outcome(s, t, r)
<1>1. t.failcount \in Nat /\ s.failcount \in Nat /\ Bonus(s) \in Nat /\ Bonus(t) = Bonus(s)
  BY DEF Fails, SvrOK, Bonus
<1>2. t.failcount = s.failcount + n /\ t.queries = s.queries /\ s.queries \in Nat
  BY DEF Fails, SvrOK
<1>3. Attempted(s, t, r)
  BY <1>1, <1>2 DEF Attempted, Fails, IsWrong
<1>4. QED
  BY <1>3 DEF Outcome

\* svr_auth_password.
LEMMA PasswordResult ==
  ASSUME NEW s, SvrOK(s), set.maxauthtries \in Nat, NEW r, r.type = "password",
         ~set.noauthpass, ~set.norootpass
  PROVE  Outcome(s, svr_auth_password(s, r.user \in set.valid, r.arg).svr, r)
<1> DEFINE t == svr_auth_password(s, r.user \in set.valid, r.arg).svr
<1>1. CASE r.user \in set.valid /\ ~set.blank /\ r.arg = "right"
  <2>1. t = Passed(s, "password").svr /\ ShowsPassword(r)
    BY <1>1 DEF svr_auth_password, ShowsPassword
  <2>2. QED
    BY <2>1, PassedResult DEF Outcome
<1>2. CASE ~(r.user \in set.valid /\ ~set.blank /\ r.arg = "right")
  <2>1. t = send_msg_userauth_failure(s, FALSE, TRUE).svr
    BY <1>2 DEF svr_auth_password
  <2>2. Fails(s, t, 1)
    BY <2>1, FailureResult
  <2>3. ~ShowsPassword(r) /\ ~ShowsKey(r) /\ ~ShowsNone(r) /\ ~UnknownKey(r)
    BY <1>2 DEF ShowsPassword, ShowsKey, ShowsNone, UnknownKey
  <2>4. QED
    BY <2>2, <2>3, FailsAttempted
<1>3. QED
  BY <1>1, <1>2

\* svr_auth_pubkey, with the free first key.
LEMMA PubkeyResult ==
  ASSUME NEW s, SvrOK(s), set.maxauthtries \in Nat, s.failcount <= set.maxauthtries, s.up,
         NEW r, r.type \in {"query", "signed", "badsig"}
  PROVE  Outcome(s, svr_auth_pubkey(s, r.user \in set.valid, r.type, r.arg).svr, r)
<1> DEFINE valid == r.user \in set.valid
           t == svr_auth_pubkey(s, valid, r.type, r.arg).svr
<1>1. CASE ~valid \/ r.arg \notin set.sigalgs
  <2>1. t = send_msg_userauth_failure(s, FALSE, FALSE).svr
    BY <1>1 DEF svr_auth_pubkey
  <2>2. Fails(s, t, 0)
    BY <2>1, FailureResult
  <2>3. ~ShowsPassword(r) /\ ~ShowsKey(r) /\ ~ShowsNone(r) /\ ~WrongSecret(r) /\ ~UnknownKey(r)
    BY <1>1 DEF ShowsPassword, ShowsKey, ShowsNone, WrongSecret, UnknownKey
  <2>4. QED
    BY <2>2, <2>3, FailsAttempted
<1>2. CASE valid /\ r.arg \in set.sigalgs \ set.authorized
  <2> DEFINE u == [s EXCEPT !.queries = @ + 1]
  <2>1. t = send_msg_userauth_failure(u, FALSE, s.queries > 0).svr
    BY <1>2 DEF svr_auth_pubkey, free_query_limit
  <2>2. /\ SvrOK(u) /\ u.queries = s.queries + 1 /\ u.failcount = s.failcount
        /\ u.user = s.user /\ u.authtypes = s.authtypes
        /\ u.authdone = s.authdone /\ u.opened = s.opened
    BY DEF SvrOK
  <2> HIDE DEF u
  <2>3. Fails(u, t, IF s.queries > 0 THEN 1 ELSE 0)
    <3>1. (s.queries > 0) \in BOOLEAN
      OBVIOUS
    <3>2. QED
      BY <2>1, <2>2, <3>1, FailureResult
  <2>4. ~ShowsPassword(r) /\ ~ShowsKey(r) /\ ~ShowsNone(r) /\ UnknownKey(r)
    BY <1>2 DEF ShowsPassword, ShowsKey, ShowsNone, UnknownKey
  <2> HIDE DEF t
  <2>5. /\ t.failcount = s.failcount + (IF s.queries > 0 THEN 1 ELSE 0)
        /\ t.queries = s.queries + 1
    BY <2>2, <2>3 DEF Fails
  <2>6. /\ s.failcount <= t.failcount /\ t.failcount <= s.failcount + 1
        /\ t.failcount + Bonus(t) >= s.failcount + Bonus(s) + 1
    BY <2>5 DEF SvrOK, Bonus
  <2>7. t.failcount + Bonus(t) >= s.failcount + Bonus(s) + IF IsWrong(r) THEN 1 ELSE 0
    BY <2>5, <2>6 DEF SvrOK, Bonus
  <2>8. Attempted(s, t, r)
    <3>1. /\ SvrOK(t) /\ t.up = (t.failcount <= set.maxauthtries)
          /\ t.user = s.user /\ t.authtypes = s.authtypes
          /\ t.authdone = s.authdone /\ t.opened = s.opened
      BY <2>2, <2>3 DEF Fails
    <3>2. QED
      BY <2>4, <2>5, <2>6, <2>7, <3>1 DEF Attempted
  <2>9. QED
    BY <2>8 DEF Outcome, t
<1>3. CASE valid /\ r.arg \in set.sigalgs \cap set.authorized
  <2>1. CASE r.type = "query"
    <3>1. t = s
      BY <1>3, <2>1 DEF svr_auth_pubkey, Result
    <3>2. ~ShowsPassword(r) /\ ~ShowsKey(r) /\ ~ShowsNone(r) /\ ~WrongSecret(r) /\ ~UnknownKey(r)
      BY <1>3, <2>1 DEF ShowsPassword, ShowsKey, ShowsNone, WrongSecret, UnknownKey
    <3>3. Fails(s, s, 0)
      <4>1. s.up = TRUE /\ (s.failcount <= set.maxauthtries) = TRUE /\ s.failcount = s.failcount + 0
        BY DEF SvrOK
      <4>2. QED
        BY <4>1 DEF Fails
    <3>4. QED
      BY <3>1, <3>2, <3>3, FailsAttempted
  <2>2. CASE r.type = "signed"
    <3>1. t = Passed(s, "pubkey").svr /\ ShowsKey(r)
      BY <1>3, <2>2 DEF svr_auth_pubkey, ShowsKey
    <3>2. QED
      BY <3>1, PassedResult DEF Outcome
  <2>3. CASE r.type = "badsig"
    <3>1. t = send_msg_userauth_failure(s, FALSE, TRUE).svr
      BY <1>3, <2>3 DEF svr_auth_pubkey
    <3>2. Fails(s, t, 1)
      BY <3>1, FailureResult
    <3>3. ~ShowsPassword(r) /\ ~ShowsKey(r) /\ ~ShowsNone(r) /\ ~UnknownKey(r)
      BY <1>3, <2>3 DEF ShowsPassword, ShowsKey, ShowsNone, UnknownKey
    <3>4. QED
      BY <3>2, <3>3, FailsAttempted
  <2>4. QED
    BY <2>1, <2>2, <2>3
<1>4. QED
  BY <1>1, <1>2, <1>3

\* recv_msg_userauth_request below the checks of the user name.
LEMMA TryResult ==
  ASSUME NEW s, SvrOK(s), set.maxauthtries \in Nat, s.failcount <= set.maxauthtries, s.up, NEW r
  PROVE  Outcome(s, TryMethod(s, r).svr, r)
<1> DEFINE t == TryMethod(s, r).svr
           passwords == ~set.noauthpass /\ ~set.norootpass
<1>1. CASE r.type = "none"
  <2>1. CASE r.user \in set.valid /\ set.allowblankpass /\ passwords /\ set.blank
    <3>1. t = send_msg_userauth_success(s).svr /\ ShowsNone(r)
      BY <1>1, <2>1 DEF TryMethod, ShowsNone
    <3>2. QED
      BY <3>1, SuccessResult DEF Outcome
  <2>2. CASE ~(r.user \in set.valid /\ set.allowblankpass /\ passwords /\ set.blank)
    <3>1. t = send_msg_userauth_failure(s, FALSE, FALSE).svr
      BY <1>1, <2>2 DEF TryMethod
    <3>2. Fails(s, t, 0)
      BY <3>1, FailureResult
    <3>3. ~ShowsPassword(r) /\ ~ShowsKey(r) /\ ~ShowsNone(r) /\ ~WrongSecret(r) /\ ~UnknownKey(r)
      BY <1>1, <2>2 DEF ShowsPassword, ShowsKey, ShowsNone, WrongSecret, UnknownKey
    <3>4. QED
      BY <3>2, <3>3, FailsAttempted
  <2>3. QED
    BY <2>1, <2>2
<1>2. CASE r.type = "password" /\ passwords
  <2>1. t = svr_auth_password(s, r.user \in set.valid, r.arg).svr
    BY <1>2 DEF TryMethod
  <2>2. QED
    BY <1>2, <2>1, PasswordResult
<1>3. CASE r.type \in {"query", "signed", "badsig"}
  <2>1. t = svr_auth_pubkey(s, r.user \in set.valid, r.type, r.arg).svr
    BY <1>3 DEF TryMethod
  <2>2. QED
    BY <1>3, <2>1, PubkeyResult
<1>4. CASE /\ r.type \notin {"none", "query", "signed", "badsig"}
           /\ ~(r.type = "password" /\ passwords)
  <2>1. t = send_msg_userauth_failure(s, FALSE, TRUE).svr
    BY <1>4 DEF TryMethod
  <2>2. Fails(s, t, 1)
    BY <2>1, FailureResult
  <2>3. ~ShowsPassword(r) /\ ~ShowsKey(r) /\ ~ShowsNone(r) /\ ~UnknownKey(r)
    BY <1>4 DEF ShowsPassword, ShowsKey, ShowsNone, UnknownKey
  <2>4. QED
    BY <2>2, <2>3, FailsAttempted
<1>5. QED
  BY <1>1, <1>2, <1>3, <1>4

\* checkusername and the banner: the user may be new, the rest stays.
LEMMA CheckedUser ==
  ASSUME SvrOK(svr), NEW user
  PROVE  LET s == [checkusername(svr, user) EXCEPT !.banner = FALSE]
         IN /\ SvrOK(s) /\ s.user = IF user \in LongUsers THEN svr.user ELSE user
            /\ s.up = svr.up /\ s.authtypes = svr.authtypes /\ s.authdone = svr.authdone
            /\ s.opened = svr.opened /\ s.failcount = svr.failcount /\ s.queries = svr.queries
<1>1. PICK u : u = IF user \in LongUsers THEN svr.user ELSE user
  OBVIOUS
<1>2. [checkusername(svr, user) EXCEPT !.banner = FALSE] = [svr EXCEPT !.user = u, !.banner = FALSE]
  BY <1>1 DEF checkusername, SvrOK
<1>3. QED
  BY <1>1, <1>2 DEF SvrOK

\* What a packet does: nothing, the end of the process, a channel, or an
\* attempt of a user who is the first or the same as before.
LEMMA PacketResult ==
  ASSUME IInv, svr.up, NEW r
  PROVE  LET t == process_packet(svr, r).svr
         IN \/ r.type = "service" /\ t = svr
            \/ svr.authdone /\ (t = svr \/ t = [svr EXCEPT !.opened = TRUE])
            \/ ~svr.authdone /\ t = [svr EXCEPT !.up = FALSE]
            \/ /\ ~svr.authdone /\ r.type \notin {"service", "open"}
               /\ SameUser(svr, r.user)
               /\ Outcome([checkusername(svr, r.user) EXCEPT !.banner = FALSE], t, r)
<1> DEFINE t == process_packet(svr, r).svr
           s == [checkusername(svr, r.user) EXCEPT !.banner = FALSE]
<1>1. CASE r.type = "service"
  BY <1>1 DEF process_packet, Result
<1>2. CASE r.type = "open"
  <2>1. svr.authdone => t = [svr EXCEPT !.opened = TRUE]
    BY <1>2 DEF process_packet, Result
  <2>2. ~svr.authdone => t = [svr EXCEPT !.up = FALSE]
    BY <1>2 DEF process_packet, Result, dropbear_exit
  <2>3. QED
    BY <2>1, <2>2
<1>3. CASE r.type \notin {"service", "open"}
  <2>1. t = recv_msg_userauth_request(svr, r).svr
    BY <1>3 DEF process_packet
  <2>2. CASE svr.authdone
    BY <2>1, <2>2 DEF recv_msg_userauth_request, Result
  <2>3. CASE ~svr.authdone /\ ~SameUser(svr, r.user)
    BY <2>1, <2>3 DEF recv_msg_userauth_request, Result, dropbear_exit
  <2>4. CASE ~svr.authdone /\ SameUser(svr, r.user)
    <3>1. t = TryMethod(s, r).svr
      BY <2>1, <2>4 DEF recv_msg_userauth_request, WithBanner, Result
    <3>2. SvrOK(s) /\ s.up /\ s.failcount = svr.failcount
      BY CheckedUser DEF IInv
    <3>3. svr.failcount <= set.maxauthtries
      BY DEF IInv, Counted
    <3>4. Outcome(s, TryMethod(s, r).svr, r)
      <4> HIDE DEF s
      <4>1. QED
        BY <3>2, <3>3, SettingTypes, TryResult
    <3>5. QED
      BY <1>3, <2>4, <3>1, <3>4
  <2>5. QED
    BY <2>2, <2>3, <2>4
<1>4. QED
  BY <1>1, <1>2, <1>3


\* What the requests read so far amount to.
Enough == Nones \/ IF Both THEN Passwords /\ PubKeys ELSE Passwords \/ PubKeys

\* As all requests that count are those of one user, what was shown is shown by
\* that user.
LEMMA EntitledEnough ==
  set \in Settings /\ OneUser /\ svr.up => (Satisfies(svr.user) <=> Enough)
<1> SUFFICES ASSUME set \in Settings, OneUser, svr.up PROVE Satisfies(svr.user) <=> Enough
  OBVIOUS
<1>1. set.valid \cap LongUsers = {} /\ ~(set.multiauth /\ set.noauthpass)
  BY AuthAssumption DEF SettingOK
<1>2. Passwords <=> /\ ~set.noauthpass /\ ~set.norootpass /\ ~set.blank
                    /\ svr.user \in set.valid /\ Has(svr.user, "password", {"right"})
  BY <1>1 DEF Passwords, ShowsPassword, Has, OneUser
<1>3. PubKeys <=> /\ svr.user \in set.valid
                  /\ Has(svr.user, "signed", set.authorized \cap set.sigalgs)
  BY <1>1 DEF PubKeys, ShowsKey, Has, OneUser
<1>4. Nones <=> /\ ~set.noauthpass /\ ~set.norootpass /\ set.blank /\ set.allowblankpass
                /\ svr.user \in set.valid
                /\ \E r \in shown : r.user = svr.user /\ r.type = "none"
  BY <1>1 DEF Nones, ShowsNone, OneUser
<1>5. QED
  BY <1>1, <1>2, <1>3, <1>4 DEF Satisfies, BlankTwoFactor, Entitled, Enough, Both

\* One request more.
LEMMA ShownGrows ==
  ASSUME NEW r, shown' = shown \cup {r}, set' = set
  PROVE  /\ Passwords' <=> Passwords \/ ShowsPassword(r)
         /\ PubKeys' <=> PubKeys \/ ShowsKey(r)
         /\ Nones' <=> Nones \/ ShowsNone(r)
         /\ Both' <=> Both
BY DEF Passwords, PubKeys, Nones, Both, ShowsPassword, ShowsKey, ShowsNone

\* A request that the server serves keeps the account of it.
LEMMA ServeIInv ==
  ASSUME IInv, Serve
  PROVE  IInv'
<1> DEFINE r == Head(c2s)
           t == process_packet(svr, r).svr
           s == [checkusername(svr, r.user) EXCEPT !.banner = FALSE]
<1>1. /\ svr.up /\ c2s # <<>> /\ svr' = t /\ set' = set /\ c2s' = Tail(c2s)
      /\ shown' = IF svr.authdone THEN shown ELSE shown \cup {r}
      /\ wrong' = IF WrongSecret(r) /\ ~svr.authdone THEN wrong + 1 ELSE wrong
      /\ unknown' = IF UnknownKey(r) /\ ~svr.authdone THEN unknown + 1 ELSE unknown
  BY DEF Serve
<1>2. Named(c2s)' /\ r.user # NoUser
  <2>1. PICK S : c2s \in Seq(S) /\ \A x \in S : x.user # NoUser
    BY DEF IInv, Named
  <2>2. Tail(c2s) \in Seq(S) /\ Head(c2s) \in S
    BY <2>1, <1>1, HeadTailProperties
  <2>3. QED
    BY <1>1, <2>1, <2>2 DEF Named
<1>3. /\ wrong \in Nat /\ wrong' \in Nat /\ set.maxauthtries \in Nat
      /\ unknown \in Nat /\ unknown' \in Nat /\ unknown = svr.queries
      /\ svr.failcount \in Nat /\ svr.queries \in Nat
      /\ svr.failcount <= set.maxauthtries /\ wrong + unknown <= svr.failcount + Bonus(svr)
      /\ SvrOK(svr) /\ svr.authdone \in BOOLEAN /\ svr.opened \in BOOLEAN
  BY <1>1, SettingTypes DEF IInv, Counted, SvrOK, Bonus
<1>4. \/ r.type = "service" /\ t = svr
      \/ svr.authdone /\ (t = svr \/ t = [svr EXCEPT !.opened = TRUE])
      \/ ~svr.authdone /\ t = [svr EXCEPT !.up = FALSE]
      \/ /\ ~svr.authdone /\ r.type \notin {"service", "open"}
         /\ SameUser(svr, r.user) /\ Outcome(s, t, r)
  BY <1>1, PacketResult
<1> SUFFICES SvrOK(svr)' /\ OneUser' /\ Counted(svr, wrong, unknown)' /\ Exact'
  BY <1>1, <1>2, <1>3 DEF IInv, Counted
<1> HIDE DEF t, r
<1>5. CASE ~svr.authdone /\ r.type = "service" /\ t = svr
  <2>1. /\ wrong' = wrong /\ unknown' = unknown
        /\ ~ShowsPassword(r) /\ ~ShowsKey(r) /\ ~ShowsNone(r)
    BY <1>1, <1>5 DEF WrongSecret, UnknownKey, ShowsPassword, ShowsKey, ShowsNone
  <2>2. OneUser'
    BY <1>1, <1>2, <1>5 DEF IInv, OneUser
  <2>3. Exact'
    BY <1>1, <1>5, <2>1, ShownGrows DEF IInv, Exact
  <2>4. QED
    BY <1>1, <1>3, <1>5, <2>1, <2>2, <2>3 DEF IInv, Counted
<1>6. CASE svr.authdone /\ (t = svr \/ t = [svr EXCEPT !.opened = TRUE])
  <2>1. /\ SvrOK(t) /\ t.user = svr.user /\ t.authdone /\ t.up
        /\ t.failcount = svr.failcount /\ t.queries = svr.queries
    BY <1>1, <1>3, <1>6 DEF SvrOK
  <2>2. OneUser'
    BY <1>1, <1>6, <2>1 DEF IInv, OneUser
  <2>3. Exact'
    BY <1>1, <1>6, <2>1 DEF IInv, Exact, Satisfies, BlankTwoFactor, Entitled, Has
  <2>4. QED
    BY <1>1, <1>3, <1>6, <2>1, <2>2, <2>3 DEF Counted, Bonus
<1>7. CASE ~svr.authdone /\ t = [svr EXCEPT !.up = FALSE]
  <2>1. SvrOK(t) /\ ~t.up /\ ~t.authdone /\ t.opened = svr.opened
    BY <1>3, <1>7 DEF SvrOK
  <2>2. OneUser'
    BY <1>1, <1>2, <1>7, <2>1 DEF IInv, OneUser
  <2>3. Exact'
    BY <1>1, <1>7, <2>1 DEF IInv, Exact
  <2>4. QED
    BY <1>1, <2>1, <2>2, <2>3 DEF Counted
<1>8. CASE /\ ~svr.authdone /\ r.type \notin {"service", "open"}
           /\ SameUser(svr, r.user) /\ Outcome(s, t, r)
  <2>1. /\ SvrOK(s) /\ s.user = (IF r.user \in LongUsers THEN svr.user ELSE r.user)
        /\ s.up /\ s.authtypes = svr.authtypes
        /\ ~s.authdone /\ s.opened = svr.opened
        /\ s.failcount = svr.failcount /\ s.queries = svr.queries /\ Bonus(s) = Bonus(svr)
    BY <1>1, <1>3, <1>8, CheckedUser DEF Bonus
  <2>2. /\ shown' = shown \cup {r} /\ ~(WrongSecret(r) /\ UnknownKey(r))
        /\ wrong' = wrong + IF WrongSecret(r) THEN 1 ELSE 0
        /\ unknown' = unknown + IF UnknownKey(r) THEN 1 ELSE 0
    BY <1>1, <1>3, <1>8 DEF WrongSecret, UnknownKey
  <2>3. /\ Passwords' <=> Passwords \/ ShowsPassword(r)
        /\ PubKeys' <=> PubKeys \/ ShowsKey(r)
        /\ Nones' <=> Nones \/ ShowsNone(r)
        /\ Both' <=> Both
    BY <1>1, <2>2, ShownGrows
  <2>4. /\ ~Nones /\ svr.authtypes \subseteq {"pubkey", "password"} /\ ~svr.opened
        /\ Both => /\ "password" \in svr.authtypes <=> ~Passwords
                   /\ "pubkey" \in svr.authtypes <=> ~PubKeys
                   /\ svr.authtypes # {}
        /\ ~Both => /\ ~Passwords /\ ~PubKeys
                    /\ svr.authtypes = {"pubkey"} \cup IF set.noauthpass THEN {} ELSE {"password"}
    BY <1>1, <1>3, <1>8 DEF IInv, Exact, SvrOK
  <2> HIDE DEF s
  <2>5. t.user = IF r.user \in LongUsers THEN svr.user ELSE r.user
    BY <1>8, <2>1 DEF Outcome, Attempted, Passes, PartlyPasses, Succeeds
  <2>6. OneUser'
    <3>1. ASSUME NEW x \in shown'
          PROVE  /\ x.user # NoUser
                 /\ x.user = t.user \/ x.user \in LongUsers \/ x.type \in {"service", "open"}
      BY <1>1, <1>2, <1>8, <2>2, <2>5 DEF IInv, OneUser, SameUser
    <3>2. QED
      BY <1>1, <3>1 DEF OneUser
  <2>7. CASE Attempted(s, t, r)
    <3>1. /\ t.failcount \in Nat /\ t.queries \in Nat
          /\ t.failcount <= svr.failcount + 1
          /\ t.failcount + Bonus(t) >= svr.failcount + Bonus(svr) + IF IsWrong(r) THEN 1 ELSE 0
          /\ t.queries = svr.queries + IF UnknownKey(r) THEN 1 ELSE 0
          /\ t.up => t.failcount <= set.maxauthtries
          /\ SvrOK(t) /\ ~t.authdone /\ ~t.opened /\ t.authtypes = svr.authtypes
          /\ ~ShowsPassword(r) /\ ~ShowsKey(r) /\ ~ShowsNone(r)
      BY <2>1, <2>4, <2>7 DEF Attempted, SvrOK
    <3>2. wrong' + unknown' <= t.failcount + Bonus(t) /\ unknown' = t.queries
      BY <1>3, <2>2, <3>1 DEF Bonus, IsWrong
    <3>3. Counted(svr, wrong, unknown)'
      BY <1>1, <1>3, <3>1, <3>2, SMTT(30) DEF Counted, Bonus
    <3>4. Exact'
      BY <1>1, <2>3, <2>4, <3>1 DEF Exact
    <3>5. QED
      BY <1>1, <2>6, <3>1, <3>3, <3>4
  <2>8. ASSUME ~IsWrong(r), Succeeds(s, t), Enough'
        PROVE  SvrOK(svr)' /\ Counted(svr, wrong, unknown)' /\ Exact'
    <3>1. /\ SvrOK(t) /\ t.authdone /\ t.up /\ t.failcount = svr.failcount
          /\ t.queries = svr.queries
      BY <2>1, <2>8 DEF Succeeds
    <3>2. wrong' = wrong /\ unknown' = unknown
      BY <1>3, <2>2, <2>8 DEF IsWrong
    <3>3. Satisfies(svr.user)'
      <4>1. (set \in Settings /\ OneUser /\ svr.up => (Satisfies(svr.user) <=> Enough))'
        BY EntitledEnough, PTL
      <4>2. QED
        BY <1>1, <2>6, <2>8, <3>1, <4>1 DEF IInv
    <3>4. QED
      BY <1>1, <1>3, <3>1, <3>2, <3>3 DEF Counted, Exact, Bonus
  <2>9. ASSUME ~IsWrong(r), NEW method, PartlyPasses(s, t, method)
        PROVE  /\ SvrOK(svr)' /\ Counted(svr, wrong, unknown)' /\ t.authtypes = svr.authtypes \ {method}
               /\ ~t.authdone /\ ~t.opened
    <3>1. /\ SvrOK(t) /\ ~t.authdone /\ ~t.opened /\ t.failcount = svr.failcount
          /\ t.queries = svr.queries /\ t.authtypes = svr.authtypes \ {method}
          /\ t.up = (t.failcount <= set.maxauthtries)
      BY <2>1, <2>4, <2>9 DEF PartlyPasses
    <3>2. wrong' = wrong /\ unknown' = unknown
      BY <1>3, <2>2, <2>9 DEF IsWrong
    <3>3. QED
      BY <1>1, <1>3, <3>1, <3>2 DEF Counted, Bonus
  <2>10. CASE ShowsPassword(r) /\ Passes(s, t, "password")
    <3>1. ~IsWrong(r) /\ ~ShowsKey(r) /\ ~ShowsNone(r) /\ ~set.noauthpass
      BY <2>10 DEF ShowsPassword, ShowsKey, ShowsNone, IsWrong, WrongSecret, UnknownKey
    <3>2. CASE set.multiauth /\ svr.authtypes \ {"password"} # {}
      <4>1. PartlyPasses(s, t, "password")
        BY <2>1, <2>10, <3>2 DEF Passes
      <4>2. /\ SvrOK(svr)' /\ Counted(svr, wrong, unknown)'
            /\ t.authtypes = svr.authtypes \ {"password"} /\ ~t.authdone /\ ~t.opened
        BY <2>9, <3>1, <4>1
      <4>3. Both
        BY <3>1, <3>2 DEF Both
      <4>4. Exact'
        BY <1>1, <2>3, <2>4, <2>10, <3>1, <3>2, <4>2, <4>3 DEF Exact
      <4>5. QED
        BY <2>6, <4>2, <4>4
    <3>3. CASE ~(set.multiauth /\ svr.authtypes \ {"password"} # {})
      <4>1. Succeeds(s, t)
        BY <2>1, <2>10, <3>3 DEF Passes
      <4>2. Enough'
        BY <2>3, <2>4, <2>10, <3>1, <3>3 DEF Enough, Both
      <4>3. QED
        BY <2>6, <2>8, <3>1, <4>1, <4>2
    <3>4. QED
      BY <3>2, <3>3
  <2>11. CASE ShowsKey(r) /\ Passes(s, t, "pubkey")
    <3>1. ~IsWrong(r) /\ ~ShowsPassword(r) /\ ~ShowsNone(r)
      BY <2>11 DEF ShowsPassword, ShowsKey, ShowsNone, IsWrong, WrongSecret, UnknownKey
    <3>2. CASE set.multiauth /\ svr.authtypes \ {"pubkey"} # {}
      <4>1. PartlyPasses(s, t, "pubkey")
        BY <2>1, <2>11, <3>2 DEF Passes
      <4>2. /\ SvrOK(svr)' /\ Counted(svr, wrong, unknown)'
            /\ t.authtypes = svr.authtypes \ {"pubkey"} /\ ~t.authdone /\ ~t.opened
        BY <2>9, <3>1, <4>1
      <4>3. Both
        BY <2>4, <3>2 DEF Both
      <4>4. Exact'
        BY <1>1, <2>3, <2>4, <2>11, <3>1, <3>2, <4>2, <4>3 DEF Exact
      <4>5. QED
        BY <2>6, <4>2, <4>4
    <3>3. CASE ~(set.multiauth /\ svr.authtypes \ {"pubkey"} # {})
      <4>1. Succeeds(s, t)
        BY <2>1, <2>11, <3>3 DEF Passes
      <4>2. Enough'
        BY <2>3, <2>4, <2>11, <3>1, <3>3 DEF Enough, Both
      <4>3. QED
        BY <2>6, <2>8, <3>1, <4>1, <4>2
    <3>4. QED
      BY <3>2, <3>3
  <2>12. CASE ShowsNone(r) /\ Succeeds(s, t)
    <3>1. ~IsWrong(r)
      BY <2>12 DEF ShowsNone, IsWrong, WrongSecret, UnknownKey
    <3>2. Enough'
      BY <2>3, <2>12 DEF Enough
    <3>3. QED
      BY <2>6, <2>8, <2>12, <3>1, <3>2
  <2>13. QED
    BY <1>8, <2>7, <2>10, <2>11, <2>12 DEF Outcome
<1>9. QED
  BY <1>3, <1>4, <1>5, <1>6, <1>7, <1>8

(***************************************************************************)
(* dbclient: its state stays in its type and its requests name its user.   *)
(***************************************************************************)

CliOK(c) ==
    c \in [state : {"NOTHING", "REQ_SENT", "FAIL_RCVD", "SUCCESS_RCVD", "RUNNING", "exited"},
           authtypes : {c.authtypes}, lastauthtype : {c.lastauthtype},
           lastprivkey : Keys \cup {NoKey}, privkeys : Seq(Keys), ignore : BOOLEAN,
           interact_failed : {c.interact_failed}, authdone : BOOLEAN, trivial : {c.trivial},
           sigalgs : {c.sigalgs}, asked : {c.asked}, why : {c.why}]

ClientOK(res) == CliOK(res.cli) /\ Named(res.out)

\* Requests from a set in which everyone has a name.
LEMMA NamedBy ==
  ASSUME NEW q, NEW S, q \in Seq(S), \A r \in S : r.user # NoUser
  PROVE  Named(q)
BY DEF Named

\* Nothing is on the wire.
LEMMA NamedEmpty == Named(<<>>)
<1>1. PICK q : q = <<>>
  OBVIOUS
<1>2. q \in Seq({}) /\ \A r \in {} : r.user # NoUser
  BY <1>1, EmptySeq
<1>3. Named(q)
  BY <1>2, NamedBy
<1>4. QED
  BY <1>1, <1>3

\* What the client sends has its user's name.
LEMMA NamedRequest == \A type, arg : Named(<<Request(type, arg)>>)
<1> SUFFICES ASSUME NEW type, NEW arg PROVE Named(<<Request(type, arg)>>)
  OBVIOUS
<1>1. Request(type, arg).user # NoUser
  BY DEF Request, NoUser, ClientUser
<1>2. PICK q : q = <<Request(type, arg)>>
  OBVIOUS
<1>3. q \in Seq({Request(type, arg)}) /\ \A r \in {Request(type, arg)} : r.user # NoUser
  BY <1>1, <1>2
<1>4. Named(q)
  BY <1>3, NamedBy
<1>5. QED
  BY <1>2, <1>4

\* More is sent.
LEMMA NamedConcat ==
  ASSUME NEW p, NEW q, Named(p), Named(q)
  PROVE  Named(p \o q)
<1>1. PICK S : p \in Seq(S) /\ \A r \in S : r.user # NoUser
  BY DEF Named
<1>2. PICK T : q \in Seq(T) /\ \A r \in T : r.user # NoUser
  BY DEF Named
<1>3. p \in Seq(S \cup T) /\ q \in Seq(S \cup T)
  BY <1>1, <1>2, SeqMonotonic
<1>4. p \o q \in Seq(S \cup T)
  BY <1>3, ConcatProperties
<1>5. QED
  BY <1>1, <1>2, <1>4 DEF Named

\* The first place where something is.
LEMMA FirstPlace ==
  ASSUME NEW I, NEW n \in Nat, I \subseteq 1..n, I # {}
  PROVE  Min(I) \in I
<1>0. I \subseteq Nat
  OBVIOUS
<1>1. PICK x \in I : \A y \in I : ~(<<y, x>> \in OpToRel(<, Nat))
  BY <1>0, WFMin, NatLessThanWellFounded
<1>2. \A y \in I : x <= y
  <2>1. \A y \in I : ~(y < x)
    BY <1>0, <1>1 DEF OpToRel
  <2>2. QED
    BY <1>0, <2>1
<1>3. QED
  BY <1>2 DEF Min

\* cli_auth_pubkey.
LEMMA PubkeyOK ==
  ASSUME NEW c, CliOK(c)
  PROVE  ClientOK(cli_auth_pubkey(c))
<1> DEFINE I == {i \in 1..Len(c.privkeys) : Allowed(c, c.privkeys[i])}
           first == SelectInSeq(c.privkeys, LAMBDA k : Allowed(c, k))
           left == IF first = 0 THEN <<>> ELSE SubSeq(c.privkeys, first, Len(c.privkeys))
           d == [c EXCEPT !.privkeys = left, !.lastauthtype = "pubkey",
                          !.lastprivkey = IF left = <<>> THEN @ ELSE Head(left)]
<1>1. c.privkeys \in Seq(Keys) /\ Len(c.privkeys) \in Nat /\ c.lastprivkey \in Keys \cup {NoKey}
  BY DEF CliOK
<1>2. first = IF I # {} THEN Min(I) ELSE 0
  BY DEF SelectInSeq
<1>3. first \in 0..Len(c.privkeys)
  <2>1. I \subseteq 1..Len(c.privkeys)
    OBVIOUS
  <2> HIDE DEF I, first
  <2>2. CASE I = {}
    BY <1>1, <1>2, <2>2
  <2>3. CASE I # {}
    <3>1. Min(I) \in I
      BY <1>1, <2>1, <2>3, FirstPlace
    <3>2. first = Min(I)
      BY <1>2, <2>3
    <3>3. first \in 1..Len(c.privkeys)
      BY <2>1, <3>1, <3>2
    <3>4. QED
      BY <1>1, <3>3
  <2>4. QED
    BY <2>2, <2>3
<1>4. left \in Seq(Keys)
  <2>1. CASE first = 0
    BY <2>1, EmptySeq
  <2>2. CASE first # 0
    <3>1. \A i \in first..Len(c.privkeys) : c.privkeys[i] \in Keys
      BY <1>1, <1>3, <2>2
    <3>2. SubSeq(c.privkeys, first, Len(c.privkeys)) \in Seq(Keys)
      <4> HIDE DEF first
      <4>1. first \in Int /\ Len(c.privkeys) \in Int
        BY <1>1, <1>3
      <4>2. QED
        BY <3>1, <4>1, SubSeqProperties
    <3>3. QED
      BY <2>2, <3>2
  <2>3. QED
    BY <2>1, <2>2
<1>5. cli_auth_pubkey(c) = [cli |-> d, out |-> IF left = <<>> THEN <<>>
                                               ELSE <<Request("query", Head(left))>>]
  BY DEF cli_auth_pubkey, ClientResult
<1> HIDE DEF left
<1>6. (IF left = <<>> THEN c.lastprivkey ELSE Head(left)) \in Keys \cup {NoKey}
  BY <1>1, <1>4, HeadTailProperties
<1>7. CliOK(d)
  BY <1>4, <1>6 DEF CliOK
<1>8. QED
  BY <1>5, <1>7, NamedEmpty, NamedRequest DEF ClientOK

\* cli_auth_password.
LEMMA PasswordOK ==
  ASSUME NEW c, CliOK(c)
  PROVE  ClientOK(cli_auth_password(c))
<1>1. CliOK([c EXCEPT !.state = "exited", !.why = "interrupted"])
  BY DEF CliOK
<1>2. CliOK([c EXCEPT !.asked = IF @ < Len(set.answers) THEN @ + 1 ELSE @,
                      !.trivial = FALSE, !.lastauthtype = "password"])
  BY DEF CliOK
<1>3. QED
  BY <1>1, <1>2, NamedEmpty, NamedRequest
  DEF ClientOK, cli_auth_password, ClientResult, ClientExit

\* cli_auth_try.
LEMMA TryOK ==
  ASSUME NEW c, CliOK(c)
  PROVE  ClientOK(cli_auth_try(c))
<1> DEFINE pk == IF "pubkey" \in c.authtypes THEN cli_auth_pubkey(c) ELSE ClientResult(c, <<>>)
<1>1. ClientOK(pk)
  BY PubkeyOK, NamedEmpty DEF ClientOK, ClientResult
<1> HIDE DEF pk
<1>2. ClientOK(ClientResult([pk.cli EXCEPT !.lastauthtype = "interactive"],
                            <<Request("interactive", "")>>))
  BY <1>1, NamedRequest DEF ClientOK, ClientResult, CliOK
<1>3. ClientOK(cli_auth_password(pk.cli))
  BY <1>1, PasswordOK DEF ClientOK
<1>4. cli_auth_try(c) \in {pk, cli_auth_password(pk.cli),
         ClientResult([pk.cli EXCEPT !.lastauthtype = "interactive"],
                      <<Request("interactive", "")>>)}
  BY DEF cli_auth_try, pk
<1>5. QED
  BY <1>1, <1>2, <1>3, <1>4

\* cli_auth_getmethods, with an immediate first attempt.
LEMMA GetmethodsOK ==
  ASSUME NEW c, CliOK(c)
  PROVE  ClientOK(cli_auth_getmethods(c))
<1> DEFINE none == <<Request("service", ""), Request("none", "")>>
           types == {"pubkey"} \cup IF set.env THEN {"password", "interactive"} ELSE {}
           try == cli_auth_try([c EXCEPT !.authtypes = types])
<1>1. Named(none)
  <2>1. PICK q : q = none
    OBVIOUS
  <2> DEFINE a == Request("service", "")
             b == Request("none", "")
  <2>2. q \in Seq({a, b})
    <3> HIDE DEF a, b
    <3>1. q = <<a, b>>
      BY <2>1 DEF a, b
    <3>2. QED
      BY <3>1
  <2>3. \A r \in {a, b} : r.user # NoUser
    <3>1. a.user = ClientUser /\ b.user = ClientUser
      BY DEF Request
    <3>2. ClientUser # NoUser
      BY DEF ClientUser, NoUser
    <3> HIDE DEF a, b
    <3>3. QED
      BY <3>1, <3>2
  <2> HIDE DEF a, b
  <2>4. Named(q)
    BY <2>2, <2>3, NamedBy
  <2> HIDE DEF none
  <2>5. QED
    BY <2>1, <2>4
<1>2. ClientOK(try)
  <2>1. CliOK([c EXCEPT !.authtypes = types])
    BY DEF CliOK
  <2>2. QED
    BY <2>1, TryOK
<1>3. cli_auth_getmethods(c) = IF ~set.immediate THEN ClientResult(c, none)
        ELSE ClientResult([try.cli EXCEPT !.ignore = try.out # <<>>], none \o try.out)
  BY DEF cli_auth_getmethods
<1> HIDE DEF none, try
<1>4. Named(none \o try.out)
  BY <1>1, <1>2, NamedConcat DEF ClientOK
<1>5. CliOK([try.cli EXCEPT !.ignore = try.out # <<>>])
  <2>1. (try.out # <<>>) \in BOOLEAN
    OBVIOUS
  <2>2. QED
    BY <1>2, <2>1 DEF ClientOK, CliOK
<1>6. QED
  BY <1>1, <1>3, <1>4, <1>5 DEF ClientOK, ClientResult

\* cli_sessionloop.
LEMMA LoopOK ==
  ASSUME NEW c, CliOK(c)
  PROVE  ClientOK(cli_sessionloop(c))
<1>1. CASE c.state = "NOTHING"
  <2> DEFINE m == cli_auth_getmethods(c)
  <2>1. ClientOK(m)
    BY GetmethodsOK
  <2>2. cli_sessionloop(c) = ClientResult([m.cli EXCEPT !.state = "REQ_SENT"], m.out)
    BY <1>1 DEF cli_sessionloop
  <2> HIDE DEF m
  <2>3. CliOK(m.cli) /\ Named(m.out)
    BY <2>1 DEF ClientOK
  <2>4. PICK d, out : d = m.cli /\ out = m.out
    OBVIOUS
  <2>5. CliOK([d EXCEPT !.state = "REQ_SENT"])
    BY <2>3, <2>4 DEF CliOK
  <2>6. cli_sessionloop(c) = [cli |-> [d EXCEPT !.state = "REQ_SENT"], out |-> out]
    BY <2>2, <2>4 DEF ClientResult
  <2>7. QED
    BY <2>3, <2>4, <2>5, <2>6 DEF ClientOK
<1>2. CASE c.state = "FAIL_RCVD"
  <2> DEFINE try == cli_auth_try(c)
  <2>1. ClientOK(try)
    BY TryOK
  <2>2. cli_sessionloop(c) \in {try, ClientExit(try.cli, "no methods"),
                                ClientResult([try.cli EXCEPT !.state = "REQ_SENT"], try.out)}
    BY <1>2 DEF cli_sessionloop
  <2> HIDE DEF try
  <2>3. /\ ClientOK(ClientExit(try.cli, "no methods"))
        /\ ClientOK(ClientResult([try.cli EXCEPT !.state = "REQ_SENT"], try.out))
    BY <2>1, NamedEmpty DEF ClientOK, ClientResult, ClientExit, CliOK
  <2>4. QED
    BY <2>1, <2>2, <2>3
<1>3. CASE c.state = "SUCCESS_RCVD"
  <2>1. cli_sessionloop(c) = ClientResult([c EXCEPT !.state = "RUNNING"], <<Request("open", "")>>)
    BY <1>3 DEF cli_sessionloop
  <2>2. CliOK([c EXCEPT !.state = "RUNNING"])
    BY DEF CliOK
  <2>3. QED
    <3> DEFINE q == <<Request("open", "")>>
    <3>1. Named(q)
      BY NamedRequest
    <3> HIDE DEF q
    <3>2. cli_sessionloop(c) = [cli |-> [c EXCEPT !.state = "RUNNING"], out |-> q]
      BY <2>1 DEF ClientResult, q
    <3>3. QED
      BY <2>2, <3>1, <3>2 DEF ClientOK
<1>4. CASE c.state \notin {"NOTHING", "FAIL_RCVD", "SUCCESS_RCVD"}
  BY <1>4, NamedEmpty DEF cli_sessionloop, ClientOK, ClientResult
<1>5. QED
  BY <1>1, <1>2, <1>3, <1>4

\* cli_pubkeyfail.
LEMMA RemoveFirstOK ==
  ASSUME NEW q \in Seq(Keys), NEW k
  PROVE  RemoveFirst(q, k) \in Seq(Keys)
<1> DEFINE I == {i \in 1..Len(q) : q[i] = k}
           p == SelectInSeq(q, LAMBDA v : v = k)
<1>1. CASE I = {}
  BY <1>1 DEF RemoveFirst
<1>2. CASE I # {}
  <2>1. RemoveFirst(q, k) = SubSeq(q, 1, p - 1) \o SubSeq(q, p + 1, Len(q))
    BY <1>2 DEF RemoveFirst, RemoveAt
  <2>2. p = Min(I)
    BY <1>2 DEF SelectInSeq
  <2> HIDE DEF p
  <2>3. p \in 1..Len(q)
    <3>1. I \subseteq 1..Len(q) /\ Len(q) \in Nat
      OBVIOUS
    <3> HIDE DEF I
    <3>2. QED
      BY <1>2, <2>2, <3>1, FirstPlace
  <2>4. SubSeq(q, 1, p - 1) \in Seq(Keys)
    BY <2>3, SubSeqProperties
  <2>5. SubSeq(q, p + 1, Len(q)) \in Seq(Keys)
    <3>1. \A i \in (p + 1)..Len(q) : q[i] \in Keys
      BY <2>3
    <3>2. p + 1 \in Int /\ Len(q) \in Int
      BY <2>3
    <3>3. QED
      BY <3>1, <3>2, SubSeqProperties
  <2>6. QED
    BY <2>1, <2>4, <2>5, ConcatProperties
<1>3. QED
  BY <1>1, <1>2

\* recv_msg_userauth_failure.
LEMMA FailureOK ==
  ASSUME NEW c, CliOK(c), NEW m
  PROVE  ClientOK(recv_msg_userauth_failure(c, m))
<1>1. CliOK([c EXCEPT !.state = "exited", !.why = "unexpected"])
  BY DEF CliOK
<1>2. CliOK([c EXCEPT !.ignore = FALSE])
  BY DEF CliOK
<1>3. CliOK(Refused(c, m))
  <2> DEFINE pubkey == c.lastauthtype = "pubkey"
             keys == IF pubkey THEN RemoveFirst(c.privkeys, c.lastprivkey) ELSE c.privkeys
             last == IF pubkey THEN NoKey ELSE c.lastprivkey
             inter == c.interact_failed \/ c.lastauthtype = "interactive"
             types == m.methods \ (IF set.pwauth THEN {} ELSE {"password", "interactive"})
  <2>1. Refused(c, m) = [c EXCEPT !.privkeys = keys, !.lastprivkey = last,
                                  !.interact_failed = inter, !.lastauthtype = "none",
                                  !.state = "FAIL_RCVD", !.authtypes = types]
    BY DEF Refused
  <2>2. keys \in Seq(Keys) /\ last \in Keys \cup {NoKey}
    BY RemoveFirstOK DEF CliOK
  <2> HIDE DEF keys, last, inter, types
  <2>3. QED
    BY <2>1, <2>2, ZenonT(60) DEF CliOK
<1>4. QED
  BY <1>1, <1>2, <1>3, NamedEmpty
  DEF recv_msg_userauth_failure, ClientOK, ClientResult, ClientExit

\* The handlers of the client.
LEMMA HandlerOK ==
  ASSUME NEW c, CliOK(c), NEW m
  PROVE  ClientOK(ClientHandler(c, m))
<1>1. ClientOK(ClientResult([c EXCEPT !.sigalgs = TRUE], <<>>))
  BY NamedEmpty DEF ClientOK, ClientResult, CliOK
<1>2. ClientOK(recv_msg_userauth_success(c))
  <2>1. CliOK([c EXCEPT !.state = "exited", !.why = "trivial"])
    BY DEF CliOK
  <2>2. CliOK([c EXCEPT !.authdone = TRUE, !.state = "SUCCESS_RCVD",
                        !.lastauthtype = "none", !.privkeys = <<>>])
    BY EmptySeq DEF CliOK
  <2>3. QED
    BY <2>1, <2>2, NamedEmpty
    DEF recv_msg_userauth_success, ClientOK, ClientResult, ClientExit
<1>3. ClientOK(recv_msg_userauth_pk_ok(c, m))
  <2>1. CliOK([c EXCEPT !.trivial = FALSE])
    BY DEF CliOK
  <2>2. CliOK([c EXCEPT !.state = "exited", !.why = "unexpected"])
    BY DEF CliOK
  <2> DEFINE q == <<Request("signed", m.key)>>
  <2>3. Named(q)
    BY NamedRequest
  <2>4. recv_msg_userauth_pk_ok(c, m) \in
          {ClientResult([c EXCEPT !.trivial = FALSE], q), ClientResult(c, <<>>),
           ClientExit(c, "unexpected")}
    BY DEF recv_msg_userauth_pk_ok
  <2> HIDE DEF q
  <2>5. /\ ClientOK(ClientResult([c EXCEPT !.trivial = FALSE], q))
        /\ ClientOK(ClientResult(c, <<>>)) /\ ClientOK(ClientExit(c, "unexpected"))
    BY <2>1, <2>2, <2>3, NamedEmpty DEF ClientOK, ClientResult, ClientExit
  <2>6. QED
    BY <2>4, <2>5
<1>4. ClientOK(ClientResult(c, <<>>))
  BY NamedEmpty DEF ClientOK, ClientResult
<1>5. QED
  BY <1>1, <1>2, <1>3, <1>4, FailureOK DEF ClientHandler

\* A pass of the client's loop: a handler, then cli_sessionloop.
LEMMA ClientPassOK ==
  ASSUME NEW handled, ClientOK(handled), Named(c2s), ClientPass(handled)
  PROVE  CliOK(cli)' /\ Named(c2s)'
<1> DEFINE loop == cli_sessionloop(handled.cli)
<1>1. ClientOK(loop)
  BY LoopOK DEF ClientOK
<1>2. cli' = loop.cli /\ c2s' = (c2s \o handled.out) \o loop.out
  BY DEF ClientPass
<1> HIDE DEF loop
<1>3. Named(c2s \o handled.out)
  BY NamedConcat DEF ClientOK
<1>4. Named((c2s \o handled.out) \o loop.out)
  BY <1>1, <1>3, NamedConcat DEF ClientOK
<1>5. QED
  BY <1>1, <1>2, <1>4 DEF ClientOK, CliOK, Named

(***************************************************************************)
(* The theorems.                                                           *)
(***************************************************************************)

FullInv == IInv /\ CliOK(cli)

\* At the start nothing was shown and nothing is counted.
LEMMA InitFullInv == Init => FullInv
<1> SUFFICES ASSUME Init PROVE FullInv
  OBVIOUS
<1>1. set \in Settings /\ SettingOK(set)
  BY AuthAssumption DEF Init
<1>2. set.maxauthtries \in Nat /\ set.privkeys \in Seq(Keys) /\ set.banner \in BOOLEAN
  BY <1>1 DEF SettingOK
<1>3. SvrOK(svr)
  BY <1>2 DEF Init, svr_authinitialise, SvrOK
<1>4. CliOK(cli)
  BY <1>2 DEF Init, CliOK
<1>5. Named(c2s)
  BY NamedEmpty DEF Init
<1>6. OneUser
  BY DEF Init, OneUser
<1>7. Counted(svr, wrong, unknown)
  <2>1. svr.up /\ svr.failcount = 0 /\ svr.queries = 0 /\ wrong = 0 /\ unknown = 0
    BY DEF Init, svr_authinitialise
  <2>2. QED
    BY <1>2, <2>1 DEF Counted, Bonus
<1>8. Exact
  <2>1. ~Nones /\ ~Passwords /\ ~PubKeys
    BY DEF Init, Nones, Passwords, PubKeys
  <2>2. /\ ~svr.opened /\ ~svr.authdone
        /\ svr.authtypes = {"pubkey"} \cup IF set.noauthpass THEN {} ELSE {"password"}
    BY DEF Init, svr_authinitialise
  <2>3. ~(set.multiauth /\ set.noauthpass)
    BY <1>1 DEF SettingOK
  <2>4. QED
    BY <2>1, <2>2, <2>3 DEF Exact, Both
<1>9. QED
  BY <1>1, <1>3, <1>4, <1>5, <1>6, <1>7, <1>8 DEF FullInv, IInv, Init

\* A step of the client's end leaves the server's account alone.
LEMMA ServerUnchanged ==
  ASSUME IInv, UNCHANGED <<set, svr, shown, wrong, unknown>>, Named(c2s)'
  PROVE  IInv'
BY DEF IInv, SvrOK, OneUser, Counted, Exact, Satisfies, BlankTwoFactor, Entitled, Has, Nones, Passwords, PubKeys, Both,
       ShowsNone, ShowsPassword, ShowsKey

\* The client is gone, and the server ends with it.
LEMMA ClientGoneIInv ==
  ASSUME IInv, ClientGone
  PROVE  IInv'
<1>1. svr.up /\ svr' = [svr EXCEPT !.up = FALSE] /\ UNCHANGED <<set, cli, c2s, s2c, shown, wrong, unknown>>
  BY DEF ClientGone
<1>2. /\ SvrOK(svr)' /\ ~svr'.up /\ svr'.opened = svr.opened /\ svr'.authdone = svr.authdone
      /\ svr'.user = svr.user
  BY <1>1 DEF IInv, SvrOK
<1>3. OneUser' /\ Exact'
  BY <1>1, <1>2 DEF IInv, OneUser, Exact, Satisfies, BlankTwoFactor, Entitled, Has
<1>4. Counted(svr, wrong, unknown)'
  BY <1>1, <1>2 DEF Counted
<1>5. QED
  BY <1>1, <1>2, <1>3, <1>4 DEF IInv, Named

\* The invariant is inductive.
LEMMA NextFullInv == FullInv /\ [Next]_vars => FullInv'
<1> SUFFICES ASSUME FullInv, [Next]_vars PROVE FullInv'
  OBVIOUS
<1>1. IInv /\ CliOK(cli) /\ Named(c2s)
  BY DEF FullInv, IInv
<1>2. CASE Serve
  <2>1. cli' = cli
    BY <1>2 DEF Serve
  <2>2. QED
    BY <1>1, <1>2, <2>1, ServeIInv DEF FullInv, CliOK
<1>3. CASE Start
  <2>1. ClientOK(ClientResult(cli, <<>>))
    BY <1>1, NamedEmpty DEF ClientOK, ClientResult
  <2>2. CliOK(cli)' /\ Named(c2s)'
    BY <1>1, <1>3, <2>1, ClientPassOK DEF Start
  <2>3. QED
    BY <1>1, <1>3, <2>2, ServerUnchanged DEF FullInv, Start
<1>4. CASE ClientReceives
  <2>1. ClientOK(ClientHandler(cli, Head(s2c)))
    BY <1>1, HandlerOK
  <2>2. CliOK(cli)' /\ Named(c2s)'
    BY <1>1, <1>4, <2>1, ClientPassOK DEF ClientReceives
  <2>3. QED
    BY <1>1, <1>4, <2>2, ServerUnchanged DEF FullInv, ClientReceives
<1>5. CASE RemoteClosed
  <2>1. CliOK(cli)' /\ Named(c2s)'
    BY <1>1, <1>5 DEF RemoteClosed, CliOK, Named
  <2>2. QED
    BY <1>1, <1>5, <2>1, ServerUnchanged DEF FullInv, RemoteClosed
<1>6. CASE ClientGone
  <2>1. cli' = cli
    BY <1>6 DEF ClientGone
  <2>2. QED
    BY <1>1, <1>6, <2>1, ClientGoneIInv DEF FullInv, CliOK
<1>7. ASSUME NEW r \in Requests, OtherClient(r)
      PROVE  FullInv'
  <2>1. CliOK(cli)'
    BY <1>1, <1>7 DEF OtherClient, CliOK
  <2>2. Named(c2s)'
    <3>1. c2s' \in Seq({r}) /\ \A x \in {r} : x.user # NoUser
      BY <1>7, AuthAssumption DEF OtherClient
    <3>2. QED
      BY <3>1 DEF Named
  <2>3. QED
    BY <1>1, <1>7, <2>1, <2>2, ServerUnchanged DEF FullInv, OtherClient
<1>8. CASE UNCHANGED vars
  BY <1>1, <1>8, ServerUnchanged DEF FullInv, vars, CliOK, Named
<1>9. QED
  BY <1>2, <1>3, <1>4, <1>5, <1>6, <1>7, <1>8 DEF Next

\* Type correctness of the two ends.
THEOREM TypeCorrect == Spec => []TypeOK
<1>1. FullInv => TypeOK
  BY DEF FullInv, IInv, SvrOK, CliOK, TypeOK, Method
<1>2. QED
  BY <1>1, InitFullInv, NextFullInv, PTL DEF Spec

\* A connection is authenticated exactly when its user has shown what the options
\* ask for, whatever the requests of a client, the keys and the settings, but for -t
\* with a blank password (recv_msg_userauth_request and the methods below it).
THEOREM Authenticates == Spec => []AuthExact
<1>1. FullInv => AuthExact
  <2> SUFFICES ASSUME FullInv PROVE AuthExact
    OBVIOUS
  <2>1. ~BlankTwoFactor => (Satisfies(svr.user) <=> Entitled(svr.user))
    BY DEF Satisfies
  <2>2. svr.up => (svr.authdone <=> Satisfies(svr.user))
    BY EntitledEnough DEF FullInv, IInv, Exact, Enough, Nones, Both, SvrOK
  <2>3. svr.opened => Satisfies(svr.user)
    BY DEF FullInv, IInv, Exact
  <2>4. QED
    BY <2>1, <2>2, <2>3 DEF FullInv, IInv, OneUser, AuthExact
<1>2. QED
  BY <1>1, InitFullInv, NextFullInv, PTL DEF Spec

\* A connection that goes on has seen no more wrong passwords and signatures than
\* maxauthtries, for every maxauthtries and every way to mix requests that count
\* with requests that do not, and no more unknown keys than MAX_PUBKEY_QUERIES
\* (send_msg_userauth_failure, svr_auth_pubkey).
THEOREM GuessBound == Spec => []GuessesBounded
<1>1. FullInv => GuessesBounded
  <2> SUFFICES ASSUME FullInv PROVE GuessesBounded
    OBVIOUS
  <2>1. /\ set.maxauthtries \in Nat /\ svr.failcount \in Nat
        /\ wrong \in Nat /\ unknown \in Nat /\ MAX_PUBKEY_QUERIES \in Nat
    BY SettingTypes, AuthAssumption DEF FullInv, IInv, SvrOK
  <2>2. svr.up => /\ svr.failcount <= set.maxauthtries /\ unknown = svr.queries
                  /\ wrong + unknown <= svr.failcount + Bonus(svr)
    BY DEF FullInv, IInv, Counted
  <2>3. QED
    BY <2>1, <2>2 DEF GuessesBounded, Bonus
<1>2. QED
  BY <1>1, InitFullInv, NextFullInv, PTL DEF Spec
=============================================================================
