------------------------------- MODULE MCAuth -------------------------------
(***************************************************************************)
(* dbclient with up to three keys of three types and one, two or no        *)
(* passwords, against the server's options; and a client that sends        *)
(* requests for two users, and under a name that is too long, in any order.*)
(***************************************************************************)
EXTENDS Auth
MCKeys == {"rsa", "ed", "ec"}
MCRsaKeys == {"rsa"}

Dbclient ==
    [dbclient : {TRUE}, valid : {{}, {"u"}}, blank : {FALSE},
     noauthpass : BOOLEAN, norootpass : {FALSE}, allowblankpass : {FALSE},
     multiauth : BOOLEAN, maxauthtries : {0, 1}, authorized : {{}, {"ed", "rsa"}},
     sigalgs : {MCKeys, {"ed", "rsa"}}, banner : {TRUE},
     privkeys : {<<>>, <<"rsa">>, <<"ec", "ed">>, <<"ec", "rsa", "ed">>},
     immediate : BOOLEAN, pwauth : {TRUE}, env : BOOLEAN,
     answers : {<<>>, <<"right">>, <<"wrong", "right">>}, notrivial : {FALSE}]
NoRootPass ==
    [dbclient : {TRUE}, valid : {{"u"}}, blank : {FALSE},
     noauthpass : BOOLEAN, norootpass : {TRUE}, allowblankpass : {FALSE},
     multiauth : BOOLEAN, maxauthtries : {0, 1}, authorized : {{}, {"ed", "rsa"}},
     sigalgs : {MCKeys}, banner : {TRUE}, privkeys : {<<>>, <<"rsa">>, <<"ec", "ed">>},
     immediate : BOOLEAN, pwauth : {TRUE}, env : {FALSE},
     answers : {<<"right">>}, notrivial : {FALSE}]
BlankOrNoPassword ==
    [dbclient : {TRUE}, valid : {{"u"}}, blank : {TRUE},
     noauthpass : BOOLEAN, norootpass : BOOLEAN, allowblankpass : BOOLEAN,
     multiauth : BOOLEAN, maxauthtries : {1}, authorized : {{}, {"ed"}},
     sigalgs : {MCKeys}, banner : {FALSE}, privkeys : {<<>>, <<"ed">>},
     immediate : BOOLEAN, pwauth : BOOLEAN, env : BOOLEAN,
     answers : {<<"right">>}, notrivial : BOOLEAN]
Other ==
    [dbclient : {FALSE}, valid : {{"u"}, {"u", "v"}}, blank : BOOLEAN,
     noauthpass : BOOLEAN, norootpass : BOOLEAN, allowblankpass : BOOLEAN,
     multiauth : BOOLEAN, maxauthtries : {1}, authorized : {{"ed"}},
     sigalgs : {MCKeys}, banner : {FALSE}, privkeys : {<<>>},
     immediate : {FALSE}, pwauth : {FALSE}, env : {FALSE},
     answers : {<<>>}, notrivial : {FALSE}]
MCSettings == {p \in Dbclient \cup NoRootPass \cup BlankOrNoPassword \cup Other :
                  ~(p.multiauth /\ p.noauthpass)}
MCOther == {p \in Other : ~(p.multiauth /\ p.noauthpass)}

MCRequests ==
    [user : {"u"}, type : {"none"}, arg : {""}] \cup
    [user : {"u", "v"}, type : {"password"}, arg : {"right", "wrong"}] \cup
    [user : {"long"}, type : {"none", "password"}, arg : {"right"}] \cup
    [user : {"u"}, type : {"query"}, arg : {"ed", "ec"}] \cup
    [user : {"u"}, type : {"badsig"}, arg : {"ed"}] \cup
    [user : {"u", "v"}, type : {"signed"}, arg : {"ed"}] \cup
    [user : {"u"}, type : {"open", "interactive"}, arg : {""}]
=============================================================================
