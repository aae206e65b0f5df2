-------------------------------- MODULE Auth --------------------------------
(***************************************************************************)
(* User authentication: the server (svr-auth.c, svr-authpasswd.c,          *)
(* svr-authpubkey.c, svr-service.c) and the client's state machine         *)
(* (cli-auth.c, cli-authpubkey.c, cli-authpasswd.c, cli-authinteract.c and *)
(* cli_sessionloop), joined by the two ordered packet streams of the       *)
(* transport.  The server also meets clients that are not dbclient and     *)
(* send requests in any order.                                             *)
(*                                                                         *)
(* A key stands for its blob and its algorithm; a password is "right" or   *)
(* "wrong" for the user it is sent with.  The checks of checkusername that *)
(* fix whether a user may log in at all are in the settings as a set of    *)
(* valid users, and norootpass is -g for a user who is root.  The failure  *)
(* delay is left out.                                                      *)
(***************************************************************************)
EXTENDS Naturals, Sequences, SequencesExt, FiniteSets

CONSTANTS Keys,          \* public keys
          RsaKeys,       \* those of type RSA
          Settings,      \* options and accounts of the two ends, see SettingOK
          LongUsers,     \* names longer than MAX_USERNAME_LEN
          MAX_PUBKEY_QUERIES,
          Requests,      \* what a client that is not dbclient may send
          MaxRequests    \* bound on how often it does

NoUser == "no user"
NoKey == "no key"
Method == {"pubkey", "password", "interactive"}

\* dbclient logs in as this user.
ClientUser == "u"

\* -t and -s exclude each other (svr_getopts).
SettingOK(p) ==
    /\ p.dbclient \in BOOLEAN                  \* the client is dbclient
    /\ p.valid \in SUBSET STRING               \* users checkusername accepts
    /\ p.valid \cap LongUsers = {}
    /\ p.blank \in BOOLEAN                     \* their password is empty
    /\ {p.noauthpass, p.norootpass, p.allowblankpass, p.multiauth} \subseteq BOOLEAN
    /\ ~(p.multiauth /\ p.noauthpass)
    /\ p.maxauthtries \in Nat
    /\ p.authorized \subseteq Keys             \* authorized_keys of the users
    /\ p.sigalgs \subseteq Keys                \* keys of the algorithms built in
    /\ p.banner \in BOOLEAN
    /\ p.privkeys \in Seq(Keys)                \* the client's keys, in order
    /\ p.immediate \in BOOLEAN                 \* DROPBEAR_CLI_IMMEDIATE_AUTH
    /\ p.pwauth \in BOOLEAN                    \* password_authentication allows it
    /\ p.env \in BOOLEAN                       \* DROPBEAR_PASSWORD is set
    /\ p.answers \in Seq({"right", "wrong"})   \* what is typed at each prompt
    /\ p.notrivial \in BOOLEAN                 \* disable_trivial_auth

ASSUME AuthAssumption ==
    /\ RsaKeys \subseteq Keys
    /\ MaxRequests \in Nat /\ MAX_PUBKEY_QUERIES \in Nat
    /\ \A r \in Requests : r.user # NoUser
    /\ \A p \in Settings : SettingOK(p)

VARIABLES set,      \* the settings of this connection
          svr,      \* the server's ses.authstate
          cli,      \* the client's ses.authstate and cli_ses
          c2s, s2c, \* packets under way
          shown,    \* history: the requests the server read before authdone
          wrong,    \* history: wrong passwords and signatures among them
          unknown   \* history: keys among them that are not authorised

vars == <<set, svr, cli, c2s, s2c, shown, wrong, unknown>>

Request(type, arg) == [type |-> type, user |-> ClientUser, arg |-> arg]
Reply(type, methods, partial, key) ==
    [type |-> type, methods |-> methods, partial |-> partial, key |-> key]
Plain(type) == Reply(type, {}, FALSE, NoKey)

(***************************************************************************)
(* The server.  A handler returns the new state and the packets it sends;  *)
(* a process that exits sends nothing of what it has just queued.          *)
(***************************************************************************)

svr_authinitialise ==
    [user |-> NoUser,
     authtypes |-> {"pubkey"} \cup IF set.noauthpass THEN {} ELSE {"password"},
     failcount |-> 0, queries |-> 0, authdone |-> FALSE, banner |-> set.banner,
     opened |-> FALSE, up |-> TRUE]

Result(s, out) == [svr |-> s, out |-> IF s.up THEN out ELSE <<>>]
dropbear_exit(s) == Result([s EXCEPT !.up = FALSE], <<>>)

\* Faulty variant: a partial success starts the count again.
FailureForgives(s, partial, incrfail) ==
    LET n == s.failcount + IF incrfail THEN 1 ELSE 0
    IN Result([s EXCEPT !.failcount = IF partial THEN 0 ELSE n,
                        !.up = n <= set.maxauthtries],
              <<Reply("FAILURE", s.authtypes, partial, NoKey)>>)

\* send_msg_userauth_failure: too many counted failures end the connection.
send_msg_userauth_failure(s, partial, incrfail) ==
    LET n == s.failcount + IF incrfail THEN 1 ELSE 0
    IN Result([s EXCEPT !.failcount = n, !.up = n <= set.maxauthtries],
              <<Reply("FAILURE", s.authtypes, partial, NoKey)>>)

send_msg_userauth_success(s) ==
    Result([s EXCEPT !.authdone = TRUE], <<Plain("SUCCESS")>>)

\* Faulty variant: a method that has been passed twice counts for both.
PassedAny(s, method) ==
    IF set.multiauth /\ s.authtypes = {"pubkey", "password"}
    THEN send_msg_userauth_failure([s EXCEPT !.authtypes = @ \ {method}], TRUE, FALSE)
    ELSE send_msg_userauth_success(s)

\* A method has been passed: with -t the other one is still required.
Passed(s, method) ==
    IF set.multiauth /\ s.authtypes \ {method} # {}
    THEN send_msg_userauth_failure([s EXCEPT !.authtypes = @ \ {method}], TRUE, FALSE)
    ELSE send_msg_userauth_success(s)

svr_auth_password(s, valid_user, password) ==
    IF valid_user /\ ~set.blank /\ password = "right"
    THEN Passed(s, "password")
    ELSE send_msg_userauth_failure(s, FALSE, TRUE)

\* The first key that is not authorised is free, later ones are counted: the
\* expression with MAX_PUBKEY_QUERIES is a statement of its own and has no effect.
free_query_limit == 0
svr_auth_pubkey(s, valid_user, type, key) ==
    CASE ~valid_user \/ key \notin set.sigalgs ->
           send_msg_userauth_failure(s, FALSE, FALSE)
      [] valid_user /\ key \in set.sigalgs \ set.authorized ->
           send_msg_userauth_failure([s EXCEPT !.queries = @ + 1], FALSE,
                                     s.queries > free_query_limit)
      [] valid_user /\ key \in set.sigalgs \cap set.authorized ->
           CASE type = "query" -> Result(s, <<Reply("PK_OK", {}, FALSE, key)>>)
             [] type = "signed" -> Passed(s, "pubkey")
             [] type = "badsig" -> send_msg_userauth_failure(s, FALSE, TRUE)

\* recv_msg_userauth_request below the checks of the user name.
TryMethod(s, r) ==
    LET valid_user == r.user \in set.valid
        passwords == ~set.noauthpass /\ ~set.norootpass
    IN CASE r.type = "none" ->
              IF valid_user /\ set.allowblankpass /\ passwords /\ set.blank
              THEN send_msg_userauth_success(s)
              ELSE send_msg_userauth_failure(s, FALSE, FALSE)
         [] r.type = "password" /\ passwords -> svr_auth_password(s, valid_user, r.arg)
         [] r.type \in {"query", "signed", "badsig"} ->
              svr_auth_pubkey(s, valid_user, r.type, r.arg)
         [] OTHER -> send_msg_userauth_failure(s, FALSE, TRUE)

\* checkusername: the user of the first request stays the user of the connection.
\* A name that is too long is neither recorded nor compared.
SameUser(s, user) == user \in LongUsers \/ s.user \in {NoUser, user}
checkusername(s, user) == [s EXCEPT !.user = IF user \in LongUsers THEN @ ELSE user]

\* The banner goes out once, in front of the first answer.
WithBanner(s, r) ==
    LET try == TryMethod([checkusername(s, r.user) EXCEPT !.banner = FALSE], r)
    IN Result(try.svr, (IF s.banner THEN <<Plain("BANNER")>> ELSE <<>>) \o try.out)

recv_msg_userauth_request(s, r) ==
    IF s.authdone THEN Result(s, <<>>)
    ELSE IF ~SameUser(s, r.user) THEN dropbear_exit(s)
    ELSE WithBanner(s, r)

\* process_packet: a request of the connection protocol needs authdone.
process_packet(s, r) ==
    CASE r.type = "service" -> Result(s, <<Plain("SERVICE_ACCEPT")>>)
      [] r.type = "open" -> IF s.authdone THEN Result([s EXCEPT !.opened = TRUE], <<>>)
                            ELSE dropbear_exit(s)
      [] OTHER -> recv_msg_userauth_request(s, r)

\* A password or signature that is not the user's, and a key that is not.
WrongSecret(r) ==
    \/ r.type = "password" /\ (r.arg = "wrong" \/ r.user \notin set.valid)
    \/ r.type = "badsig" /\ r.user \in set.valid /\ r.arg \in set.sigalgs \cap set.authorized
UnknownKey(r) ==
    /\ r.type \in {"query", "signed", "badsig"} /\ r.user \in set.valid
    /\ r.arg \in set.sigalgs \ set.authorized

Serve ==
    /\ svr.up /\ c2s # <<>>
    /\ LET r == Head(c2s)
           res == process_packet(svr, r)
       IN /\ svr' = res.svr
          /\ s2c' = IF set.dbclient THEN s2c \o res.out ELSE s2c
          /\ shown' = IF svr.authdone THEN shown ELSE shown \cup {r}
          /\ wrong' = IF WrongSecret(r) /\ ~svr.authdone THEN wrong + 1 ELSE wrong
          /\ unknown' = IF UnknownKey(r) /\ ~svr.authdone THEN unknown + 1 ELSE unknown
    /\ c2s' = Tail(c2s)
    /\ UNCHANGED <<set, cli>>

(***************************************************************************)
(* dbclient.  A handler returns the new state and the packets it sends.    *)
(***************************************************************************)

ClientResult(c, out) == [cli |-> c, out |-> out]
ClientExit(c, why) == ClientResult([c EXCEPT !.state = "exited", !.why = why], <<>>)

\* cli_auth_pubkey: keys that the server's list rules out are dropped from
\* the front.  Until EXT_INFO has come every algorithm but RSA is tried: a
\* build without RSA-SHA1 has no other use for an RSA key.
Allowed(c, k) == IF c.sigalgs THEN k \in set.sigalgs ELSE k \notin RsaKeys

cli_auth_pubkey(c) ==
    LET first == SelectInSeq(c.privkeys, LAMBDA k : Allowed(c, k))
        left == IF first = 0 THEN <<>> ELSE SubSeq(c.privkeys, first, Len(c.privkeys))
    IN ClientResult([c EXCEPT !.privkeys = left, !.lastauthtype = "pubkey",
                              !.lastprivkey = IF left = <<>> THEN @ ELSE Head(left)],
                    IF left = <<>> THEN <<>> ELSE <<Request("query", Head(left))>>)

\* getpass_or_cancel: a password from the environment is burned by its first
\* use, and nothing is left of it but an empty string.
getpass_or_cancel(c) ==
    IF c.asked < Len(set.answers) THEN set.answers[c.asked + 1]
    ELSE IF set.env THEN "wrong" ELSE "cancel"

cli_auth_password(c) ==
    LET password == getpass_or_cancel(c)
    IN IF password = "cancel" THEN ClientExit(c, "interrupted")
       ELSE ClientResult([c EXCEPT !.asked = IF @ < Len(set.answers) THEN @ + 1 ELSE @,
                                   !.trivial = FALSE, !.lastauthtype = "password"],
                         <<Request("password", password)>>)

\* cli_auth_try: public keys, then keyboard-interactive, then a password.
\* It has failed when it neither sends a request nor exits.
cli_auth_try(c) ==
    LET pk == IF "pubkey" \in c.authtypes THEN cli_auth_pubkey(c) ELSE ClientResult(c, <<>>)
    IN CASE pk.out # <<>> -> pk
         [] pk.out = <<>> /\ set.pwauth /\ "interactive" \in c.authtypes /\ ~c.interact_failed ->
              ClientResult([pk.cli EXCEPT !.lastauthtype = "interactive"],
                           <<Request("interactive", "")>>)
         [] pk.out = <<>> /\ set.pwauth /\ "password" \in c.authtypes
            /\ ("interactive" \notin c.authtypes \/ c.interact_failed) ->
              cli_auth_password(pk.cli)
         [] OTHER -> pk

\* cli_auth_getmethods: the "none" request, and in a build with immediate
\* authentication a first attempt right behind it.
cli_auth_getmethods(c) ==
    LET none == <<Request("service", ""), Request("none", "")>>
        types == {"pubkey"} \cup IF set.env THEN {"password", "interactive"} ELSE {}
        try == cli_auth_try([c EXCEPT !.authtypes = types])
    IN IF ~set.immediate THEN ClientResult(c, none)
       ELSE ClientResult([try.cli EXCEPT !.ignore = try.out # <<>>], none \o try.out)

\* The states of cli_sessionloop, which runs at the end of every pass.
cli_sessionloop(c) ==
    CASE c.state = "NOTHING" ->
           LET m == cli_auth_getmethods(c)
           IN ClientResult([m.cli EXCEPT !.state = "REQ_SENT"], m.out)
      [] c.state = "FAIL_RCVD" ->
           LET try == cli_auth_try(c)
           IN IF try.cli.state = "exited" THEN try
              ELSE IF try.out = <<>> THEN ClientExit(try.cli, "no methods")
              ELSE ClientResult([try.cli EXCEPT !.state = "REQ_SENT"], try.out)
      [] c.state = "SUCCESS_RCVD" ->
           ClientResult([c EXCEPT !.state = "RUNNING"], <<Request("open", "")>>)
      [] OTHER -> ClientResult(c, <<>>)

\* An answer that counts: a key that was refused leaves the list
\* (cli_pubkeyfail), and the methods are those the server names.
Refused(c, m) ==
    LET pubkey == c.lastauthtype = "pubkey"
    IN [c EXCEPT !.privkeys = IF pubkey THEN RemoveFirst(@, c.lastprivkey) ELSE @,
                 !.lastprivkey = IF pubkey THEN NoKey ELSE @,
                 !.interact_failed = @ \/ c.lastauthtype = "interactive",
                 !.lastauthtype = "none", !.state = "FAIL_RCVD",
                 !.authtypes = m.methods \ (IF set.pwauth THEN {}
                                            ELSE {"password", "interactive"})]


\* recv_msg_userauth_failure: the answer to "none" is dropped when another
\* one is under way.
recv_msg_userauth_failure(c, m) ==
    IF c.authdone THEN ClientResult(c, <<>>)
    ELSE IF c.state # "REQ_SENT" THEN ClientExit(c, "unexpected")
    ELSE IF c.ignore THEN ClientResult([c EXCEPT !.ignore = FALSE], <<>>)
    ELSE ClientResult(Refused(c, m), <<>>)

recv_msg_userauth_success(c) ==
    IF set.notrivial /\ c.trivial THEN ClientExit(c, "trivial")
    ELSE ClientResult([c EXCEPT !.authdone = TRUE, !.state = "SUCCESS_RCVD",
                                !.lastauthtype = "none", !.privkeys = <<>>], <<>>)

\* recv_msg_userauth_specific_60: dropbear sends type 60 for PK_OK only.
recv_msg_userauth_pk_ok(c, m) ==
    CASE c.lastauthtype = "pubkey" /\ m.key \in Range(c.privkeys) ->
           ClientResult([c EXCEPT !.trivial = FALSE], <<Request("signed", m.key)>>)
      [] c.lastauthtype = "pubkey" /\ m.key \notin Range(c.privkeys) -> ClientResult(c, <<>>)
      [] c.lastauthtype # "pubkey" -> ClientExit(c, "unexpected")

ClientHandler(c, m) ==
    CASE m.type = "EXT_INFO" -> ClientResult([c EXCEPT !.sigalgs = TRUE], <<>>)
      [] m.type = "FAILURE" -> recv_msg_userauth_failure(c, m)
      [] m.type = "SUCCESS" -> recv_msg_userauth_success(c)
      [] m.type = "PK_OK" -> recv_msg_userauth_pk_ok(c, m)
      [] OTHER -> ClientResult(c, <<>>)          \* SERVICE_ACCEPT, BANNER

\* The rest of a pass: the loop handler of a client that has not exited.
ClientPass(handled) ==
    LET loop == cli_sessionloop(handled.cli)
    IN /\ cli' = loop.cli
       /\ c2s' = c2s \o handled.out \o loop.out

\* The first key exchange is done on the client's side: EXT_INFO follows the
\* server's NEWKEYS, so the first requests go out before it is read.
Start ==
    /\ set.dbclient /\ cli.state = "NOTHING"
    /\ ClientPass(ClientResult(cli, <<>>))
    /\ UNCHANGED <<set, svr, s2c, shown, wrong, unknown>>

Running == cli.state \notin {"NOTHING", "exited"}

ClientReceives ==
    /\ set.dbclient /\ Running /\ s2c # <<>>
    /\ ClientPass(ClientHandler(cli, Head(s2c)))
    /\ s2c' = Tail(s2c)
    /\ UNCHANGED <<set, svr, shown, wrong, unknown>>

\* The other end is gone: cli_remoteclosed, or the end of the server process.
RemoteClosed ==
    /\ set.dbclient /\ Running /\ ~svr.up /\ s2c = <<>>
    /\ cli' = [cli EXCEPT !.state = "exited", !.why = "closed"]
    /\ UNCHANGED <<set, svr, c2s, s2c, shown, wrong, unknown>>
ClientGone ==
    /\ set.dbclient /\ cli.state = "exited" /\ svr.up /\ c2s = <<>>
    /\ svr' = [svr EXCEPT !.up = FALSE]
    /\ UNCHANGED <<set, cli, c2s, s2c, shown, wrong, unknown>>

\* A client of any other make sends what it likes; what it does with the
\* answers is its own business.  The server takes requests one at a time, so
\* only their order matters to it.
OtherClient(r) ==
    /\ ~set.dbclient /\ svr.up /\ c2s = <<>> /\ cli.asked < MaxRequests
    /\ c2s' = <<r>>
    /\ cli' = [cli EXCEPT !.asked = @ + 1]
    /\ UNCHANGED <<set, svr, s2c, shown, wrong, unknown>>

Init ==
    /\ set \in Settings
    /\ svr = svr_authinitialise
    /\ cli = [state |-> "NOTHING", authtypes |-> {}, lastauthtype |-> "none",
              lastprivkey |-> NoKey, privkeys |-> set.privkeys, ignore |-> FALSE,
              interact_failed |-> FALSE, authdone |-> FALSE, trivial |-> TRUE,
              sigalgs |-> FALSE, asked |-> 0, why |-> ""]
    /\ c2s = <<>>
    /\ s2c = <<Plain("EXT_INFO")>>
    /\ shown = {} /\ wrong = 0 /\ unknown = 0

Next ==
    \/ Serve \/ Start \/ ClientReceives \/ RemoteClosed \/ ClientGone
    \/ \E r \in Requests : OtherClient(r)

Spec == Init /\ [][Next]_vars

\* Both session loops keep going round.
Fairness == WF_vars(Serve \/ Start \/ ClientReceives \/ RemoteClosed \/ ClientGone)
FairSpec == Spec /\ Fairness

(***************************************************************************)
(* Properties.                                                             *)
(***************************************************************************)

TypeOK ==
    /\ set \in Settings
    /\ svr.authtypes \subseteq Method /\ svr.failcount \in Nat /\ svr.queries \in Nat
    /\ {svr.authdone, svr.up, svr.opened, cli.authdone, cli.ignore} \subseteq BOOLEAN
    /\ cli.state \in {"NOTHING", "REQ_SENT", "FAIL_RCVD", "SUCCESS_RCVD", "RUNNING", "exited"}
    /\ cli.privkeys \in Seq(Keys) /\ cli.lastprivkey \in Keys \cup {NoKey}
    /\ wrong \in Nat /\ unknown \in Nat

\* What the options ask for, as a fact about the requests a user has sent.
Has(user, type, args) == \E r \in shown : r.user = user /\ r.type = type /\ r.arg \in args
Entitled(user) ==
    LET pw == ~set.noauthpass /\ ~set.norootpass /\ ~set.blank
              /\ Has(user, "password", {"right"})
        pk == Has(user, "signed", set.authorized \cap set.sigalgs)
        none == ~set.noauthpass /\ ~set.norootpass /\ set.blank /\ set.allowblankpass
                /\ \E r \in shown : r.user = user /\ r.type = "none"
    IN /\ user \in set.valid
       /\ IF set.multiauth THEN pw /\ pk ELSE none \/ pw \/ pk

\* -t with -B, and an account without a password.
BlankTwoFactor ==
    set.multiauth /\ set.allowblankpass /\ set.blank /\ ~set.norootpass

\* While the server runs a connection is authenticated exactly when its user,
\* the first one named whose name is not too long, has shown what the options
\* ask for: one method, or both with -t, in whatever order and between whatever
\* failures and requests with names that are too long; and no channel is opened
\* before (recv_msg_userauth_request, process_packet).  Left out: with -t and -B the
\* "none" request alone lets in an account without a password, although the manual
\* says that both methods are required.
AuthExact ==
    /\ ~BlankTwoFactor => /\ svr.up => (svr.authdone <=> Entitled(svr.user))
                          /\ svr.opened => Entitled(svr.user)
    /\ \A r \in shown : svr.up => \/ r.user = svr.user \/ r.user \in LongUsers
                                  \/ r.type \in {"service", "open"}

\* A connection goes on only while no more passwords and signatures were wrong
\* than the "maximum number of failed authentication tries", and no more unknown
\* keys came than MAX_PUBKEY_QUERIES, however they are mixed with requests that do
\* not count (send_msg_userauth_failure, svr_auth_pubkey).  The manual would end it
\* one try earlier, at the maxauthtries-th failure, and the comments on
\* MAX_PUBKEY_QUERIES would count unknown keys later than after the first.
GuessesBounded ==
    svr.up => /\ wrong <= set.maxauthtries
              /\ set.maxauthtries < MAX_PUBKEY_QUERIES => unknown <= MAX_PUBKEY_QUERIES

(***************************************************************************)
(* Who gets in with dbclient.  Its keys are tried in order, without those  *)
(* the server has no algorithm for.  An immediate first attempt is made    *)
(* before EXT_INFO: it loses the RSA keys at the front of the list and     *)
(* tries the first of the others whatever its algorithm.                   *)
(***************************************************************************)
FirstOther == SelectInSeq(set.privkeys, LAMBDA k : k \notin RsaKeys)
KeysTried ==
    LET kept == IF ~set.immediate THEN set.privkeys
                ELSE IF FirstOther = 0 THEN <<>>
                ELSE SubSeq(set.privkeys, FirstOther, Len(set.privkeys))
    IN SelectSeq(kept, LAMBDA k : k \in set.sigalgs)
GoodKey == SelectInSeq(KeysTried, LAMBDA k : k \in set.authorized)

\* Failures the server has counted when the good key, or the last one, has
\* been tried: the first is free.  A password from the environment makes an
\* immediate client without keys ask for keyboard-interactive once.
CountedKeys ==
    LET bad == IF GoodKey = 0 THEN Len(KeysTried) ELSE GoodKey - 1
    IN IF bad > 0 THEN bad - 1 ELSE 0
CountedInteractive ==
    IF set.immediate /\ set.env /\ set.pwauth /\ FirstOther = 0 THEN 1 ELSE 0
GoodAnswer == SelectInSeq(set.answers, LAMBDA a : a = "right")

Qualified ==
    LET before == CountedKeys + CountedInteractive
        pk == GoodKey > 0 /\ before <= set.maxauthtries
        pw == /\ ~set.noauthpass /\ ~set.norootpass /\ ~set.blank /\ set.pwauth
              /\ GoodAnswer > 0
              /\ before + GoodAnswer - 1 <= set.maxauthtries
    IN /\ ClientUser \in set.valid
       /\ IF set.blank /\ set.allowblankpass /\ ~set.noauthpass /\ ~set.norootpass
          THEN ~set.notrivial
          ELSE IF set.multiauth THEN pk /\ pw ELSE pk \/ pw

=============================================================================
