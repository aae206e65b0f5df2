----------------------------- MODULE AlgoMatch ------------------------------
(***************************************************************************)
(* Choosing an algorithm (common-algo.c): both ends advertise the usable   *)
(* entries of their table and run buf_match_algo on what they received,    *)
(* each from its own point of view.  A table has a fixed order and entries *)
(* that are switched off.  After the first exchange the server switches    *)
(* off every signature type but the chosen one (disable_sig_except).       *)
(***************************************************************************)
EXTENDS Naturals, Sequences, FiniteSets

CONSTANTS Algos,       \* names of algorithms
          KexGuess2,   \* both ends have the kexguess2 extension
          NULL

ASSUME AlgosAssumption == IsFiniteSet(Algos) /\ NULL \notin Algos /\ KexGuess2 \in BOOLEAN

VARIABLES cli, svr,    \* the tables: sequences of [name, usable]
          ccho, scho,  \* what client and server chose
          round        \* key exchanges negotiated

vars == <<cli, svr, ccho, scho, round>>

Tables == UNION {[1..n -> [name : Algos, usable : BOOLEAN]] : n \in 1..Cardinality(Algos)}
Distinct(t) == \A i, j \in DOMAIN t : t[i].name = t[j].name => i = j

Unset == [algo |-> NULL, goodguess |-> FALSE]

\* The client's first entry is never switched off: cli_algos_initialise only
\* disables the strict kex marker of the server.
Init == /\ cli \in {t \in Tables : Distinct(t) /\ t[1].usable}
        /\ svr \in {t \in Tables : Distinct(t)}
        /\ ccho = Unset /\ scho = Unset /\ round = 0

-----------------------------------------------------------------------------
\* buf_put_algolist: the names of the usable entries, in the order of the
\* table; and the names as buf_match_algo uses its own table.
Usable(t) == {i \in DOMAIN t : t[i].usable}
Rank(t, i) == Cardinality({k \in Usable(t) : k <= i})
buf_put_algolist(t) ==
    [r \in 1..Cardinality(Usable(t)) |-> t[CHOOSE i \in Usable(t) : Rank(t, i) = r].name]

LocalNames(t) == [i \in DOMAIN t |-> IF t[i].usable THEN t[i].name ELSE NULL]

\* first_usable_algo: what the client's guess is made for.
first_usable_algo(t) == Head(buf_put_algolist(t))

\* Faulty variant: kexguess2 is ignored.
MatchOldGuess(clinames, servnames) ==
    LET hits == {h \in (DOMAIN clinames) \X (DOMAIN servnames) :
                    clinames[h[1]] = servnames[h[2]] /\ clinames[h[1]] # NULL}
        first == CHOOSE h \in hits : \A g \in hits :
                    h[1] < g[1] \/ (h[1] = g[1] /\ h[2] <= g[2])
    IN  IF hits = {} THEN Unset
        ELSE [algo |-> clinames[first[1]], goodguess |-> first = <<1, 1>>]

(***************************************************************************)
(* The loops of buf_match_algo: the first client name, and for it the      *)
(* first server name, that are equal.                                      *)
(***************************************************************************)
buf_match_algo(clinames, servnames) ==
    LET hits == {h \in (DOMAIN clinames) \X (DOMAIN servnames) :
                    clinames[h[1]] = servnames[h[2]] /\ clinames[h[1]] # NULL}
        first == CHOOSE h \in hits : \A g \in hits :
                    h[1] < g[1] \/ (h[1] = g[1] /\ h[2] <= g[2])
    IN  IF hits = {} THEN Unset
        ELSE [algo |-> clinames[first[1]],
              goodguess |-> first[1] = 1 /\ (KexGuess2 \/ first[2] = 1)]

ClientMatch(c, s) == buf_match_algo(LocalNames(c), buf_put_algolist(s))
ServerMatch(c, s) == buf_match_algo(buf_put_algolist(c), LocalNames(s))

\* Faulty variant: the chosen type is the one switched off.
DisableChosen(t, algo) ==
    [i \in DOMAIN t |-> [t[i] EXCEPT !.usable = @ /\ t[i].name # algo]]

disable_sig_except(t, algo) ==
    [i \in DOMAIN t |-> [t[i] EXCEPT !.usable = @ /\ t[i].name = algo]]

\* recv_msg_kexinit at both ends; without a match the session ends.
Negotiate ==
    /\ round < 2
    /\ round = 1 => scho.algo # NULL
    /\ round' = round + 1
    /\ ccho' = ClientMatch(cli, svr) /\ scho' = ServerMatch(cli, svr)
    /\ svr' = IF scho'.algo # NULL THEN disable_sig_except(svr, scho'.algo) ELSE svr
    /\ UNCHANGED cli

Spec == Init /\ [][Negotiate]_vars

-----------------------------------------------------------------------------
(***************************************************************************)
(* Both ends choose the same algorithm, or both find none, although each   *)
(* has its own table, with entries switched off, and the other's list; and *)
(* they agree on whether the guessed packet counts: otherwise the client   *)
(* would wait for a reply to a packet that the server ignores, or send a   *)
(* second one that the server does not expect.  A good guess is one made   *)
(* for the algorithm that was chosen.                                      *)
(***************************************************************************)
ChoiceAgreed ==
    /\ ccho.algo = scho.algo
    /\ ccho.goodguess = scho.goodguess
    /\ ccho.goodguess => first_usable_algo(cli) = scho.algo

(***************************************************************************)
(* Rekeying finds the algorithm of the first exchange again: switching the *)
(* other signature types off never leaves a session that cannot rekey.     *)
(***************************************************************************)
RekeyKeepsChoice == [][round = 1 => scho'.algo = scho.algo /\ ccho'.algo = ccho.algo]_vars

=============================================================================
