----------------------------- MODULE MCServices -----------------------------
(***************************************************************************)
(* Components that share no state, checked in one run: the initial state   *)
(* says which of them moves.                                               *)
(***************************************************************************)
EXTENDS Databases, Secrets, Collection1, Comparison, MCFilter

VARIABLE part

MCUrl(path, slashes, query) ==
    [parses |-> TRUE, userinfo |-> FALSE, query |-> query, path |-> path, slashes |-> slashes]

\* https://vc, https://vc/sdk//?a=b, https://user@vc and one that does not parse.
MCUrls == {MCUrl(<<>>, 0, FALSE), MCUrl(<<"sdk">>, 2, TRUE),
           [MCUrl(<<>>, 0, FALSE) EXCEPT !.userinfo = TRUE],
           [MCUrl(<<>>, 0, FALSE) EXCEPT !.parses = FALSE]}

\* Everything is granted, or the second datacenter lacks what the forecaster
\* needs on its VM folder, or what the collector needs on its network folder.
MCAll == [r \in allRefs |-> Privileges]
MCSecond == CHOOSE d \in Datacenters : d # CHOOSE e \in Datacenters : TRUE
MCGrants == {MCAll, [MCAll EXCEPT ![<<MCSecond, "vm">>] = @ \ ForecasterRequiredPrivileges],
             [MCAll EXCEPT ![<<MCSecond, "network">>] = @ \ CollectorRequiredPrivileges]}

\* Two VMs share a cluster, one has none; the default and the largest size of a page are small.
MCClusterOf == (1 :> "c1") @@ (2 :> "c1") @@ (3 :> "")
MCPairs == {<<"A", "B">>, <<"A", "A">>, <<"A", "gone">>}

Parts == {"databases", "secrets", "collection1", "comparison", "filter"}

\* Requests are interchangeable: none of them is named anywhere.
Symmetry == Permutations(Calls) \cup Permutations(Users)

\* A component that does not move starts in one state.
Init ==
    /\ part \in Parts
    /\ DbInit /\ SecretInit /\ Collection1Init
    /\ part # "secrets" => dataFolder /\ api = "v2" /\ granted = MCAll
    /\ part # "databases" => files = {} /\ schema[Main] = {}
    /\ part = "secrets" => (dataFolder /\ api = "v2") \/ granted = MCAll
    /\ CmpInit /\ (part # "comparison" => \A c \in DOMAIN vinfo : vinfo[c] = <<>>)
    /\ IF part = "filter" THEN FilterInit ELSE asked = [op |-> "lex", arg |-> <<>>] /\ answer = Pending

Next ==
    /\ UNCHANGED part
    /\ \/ part = "databases" /\ DbNext /\ UNCHANGED <<secretVars, collectionVars1, cmpVars, filterVars>>
       \/ part = "secrets" /\ SecretNext /\ UNCHANGED <<dbVars, collectionVars1, cmpVars, filterVars>>
       \/ part = "collection1" /\ Collection1Next /\ UNCHANGED <<dbVars, secretVars, cmpVars, filterVars>>
       \/ part = "comparison" /\ CmpNext /\ UNCHANGED <<dbVars, secretVars, collectionVars1, filterVars>>
       \/ part = "filter" /\ FilterNext /\ UNCHANGED <<dbVars, secretVars, collectionVars1, cmpVars>>

Spec == Init /\ [][Next]_<<dbVars, secretVars, collectionVars1, cmpVars, filterVars, part>>
=============================================================================
