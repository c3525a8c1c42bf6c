----------------------------- MODULE Aggregation ----------------------------
(***************************************************************************)
(* EncryptedAggregator and HybridProtocol (services/edge_fabric/           *)
(* federated_learning/homomorphic.py): clients encrypt their parameters,   *)
(* the server adds up the updates it has, parameter by parameter, on the   *)
(* ciphertexts, and the sum is decrypted.  A parameter is an array of rows *)
(* and a ciphertext holds the vector it decrypts to; adding ciphertexts    *)
(* adds the vectors, which must be of one size.  Models may differ in how  *)
(* many parameters they have, in their shapes and in their sizes.  An      *)
(* update that was serialised comes back without a context, and cannot be  *)
(* computed with.                                                          *)
(***************************************************************************)
EXTENDS Integers, Sequences, Functions

CONSTANTS
    Arrays,          \* values of a parameter
    ParamLists,      \* the parameters a client may have, sequences of Arrays
    MaxUpdates       \* bound on the number of updates

\* The k-th element of an array, counted along its rows.
Element(array, k) ==
    LET columns == Len(array[1])
    IN  array[((k - 1) \div columns) + 1][((k - 1) % columns) + 1]

flatten(array) == [k \in 1..(Len(array) * Len(array[1])) |-> Element(array, k)]

ASSUME SumsAssumption ==
    /\ ParamLists \subseteq Seq(Arrays)
    /\ \A a \in Arrays : \A k \in DOMAIN flatten(a) : Element(a, k) \in Int

VARIABLES
    prepared,        \* history: the parameters the clients encrypted
    updates,         \* the encrypted updates the server has, in order of arrival
    linked,          \* whether all of them have a context
    aggregated,      \* the sums so far
    param_agg,       \* the sum of the parameter that is being added up,
    added,           \* and the number of updates in it, 0 between the parameters
    decrypted,       \* what decrypt_parameters returned for them
    phase            \* "collecting", "adding", "aggregated", "decrypted" or "raised"

sumVars == <<prepared, updates, linked, aggregated, param_agg, added, decrypted, phase>>

SumsInit ==
    /\ prepared = <<>> /\ updates = <<>> /\ linked = TRUE
    /\ aggregated = <<>> /\ param_agg = <<>> /\ added = 0 /\ decrypted = <<>>
    /\ phase = "collecting"

encrypt_parameters(params) ==
    [i \in DOMAIN params |-> [encrypted |-> flatten(params[i])]]

\* client_prepare.
ClientPrepare(params) ==
    /\ phase = "collecting"
    /\ Len(updates) < MaxUpdates
    /\ prepared' = Append(prepared, params)
    /\ updates' = Append(updates, encrypt_parameters(params))
    /\ UNCHANGED <<linked, aggregated, param_agg, added, decrypted, phase>>

\* An update goes through parameter_serialize and parameter_deserialize, which
\* builds a context and does not give it to the vectors.
Serialize ==
    /\ phase = "collecting"
    /\ updates # <<>>
    /\ linked' = FALSE
    /\ UNCHANGED <<prepared, updates, aggregated, param_agg, added, decrypted, phase>>

-----------------------------------------------------------------------------
(* secure_aggregate, an addition at a time.                                *)

\* The same updates may be aggregated again.
ServerAggregate ==
    /\ phase \notin {"adding", "raised"}
    /\ phase' = "adding"
    /\ aggregated' = <<>> /\ decrypted' = <<>>
    /\ param_agg' = <<>> /\ added' = 0
    /\ UNCHANGED <<prepared, updates, linked>>

param_idx == Len(aggregated) + 1

CopyFirst ==
    /\ phase = "adding" /\ added = 0
    /\ updates # <<>> /\ linked
    /\ param_idx \in DOMAIN updates[1]
    /\ param_agg' = updates[1][param_idx]
    /\ added' = 1
    /\ UNCHANGED <<prepared, updates, linked, aggregated, decrypted, phase>>

Add(v, w) == [encrypted |-> [k \in DOMAIN v.encrypted |-> v.encrypted[k] + w.encrypted[k]]]

AfterSum_NoCopy(sum) == [updates EXCEPT ![1][param_idx] = sum]

\* += works in place, on a copy.
AfterSum(sum) == updates

\* The next update has the parameter, and in the size of the sum so far.
Fits ==
    LET update == updates[added + 1]
    IN  /\ param_idx \in DOMAIN update
        /\ DOMAIN update[param_idx].encrypted = DOMAIN param_agg.encrypted

AddUpdate ==
    /\ phase = "adding" /\ added \in 1..(Len(updates) - 1)
    /\ Fits
    /\ param_agg' = Add(param_agg, updates[added + 1][param_idx])
    /\ updates' = AfterSum(param_agg')
    /\ added' = added + 1
    /\ UNCHANGED <<prepared, linked, aggregated, decrypted, phase>>

AppendParameter ==
    /\ phase = "adding" /\ added > 0 /\ added = Len(updates)
    /\ aggregated' = Append(aggregated, param_agg)
    /\ added' = 0
    /\ UNCHANGED <<prepared, updates, linked, param_agg, decrypted, phase>>

\* There is no update, one has no context, too few parameters, or one of another
\* size.
AggregateRaises ==
    /\ phase = "adding"
    /\ \/ updates = <<>>
       \/ added = 0 /\ updates # <<>> /\ param_idx \in DOMAIN updates[1] /\ ~linked
       \/ added \in 1..(Len(updates) - 1) /\ ~Fits
    /\ phase' = "raised"
    /\ UNCHANGED <<prepared, updates, linked, aggregated, param_agg, added, decrypted>>

AggregateReturns ==
    /\ phase = "adding" /\ added = 0
    /\ updates # <<>> /\ Len(aggregated) = Len(updates[1])
    /\ phase' = "aggregated"
    /\ UNCHANGED <<prepared, updates, linked, aggregated, param_agg, added, decrypted>>

\* The shapes are not restored.
DecryptParameters ==
    /\ phase = "aggregated"
    /\ phase' = "decrypted"
    /\ decrypted' = [i \in DOMAIN aggregated |-> aggregated[i].encrypted]
    /\ UNCHANGED <<prepared, updates, linked, aggregated, param_agg, added>>

SumsNext ==
    \/ \E params \in ParamLists : ClientPrepare(params)
    \/ Serialize
    \/ ServerAggregate \/ CopyFirst \/ AddUpdate \/ AppendParameter
    \/ AggregateRaises \/ AggregateReturns
    \/ DecryptParameters

SumsSpec == SumsInit /\ [][SumsNext]_sumVars

-----------------------------------------------------------------------------
\* What the clients encrypted in the k-th element of parameter i.
Inputs(i, k) == [u \in DOMAIN prepared |-> Element(prepared[u][i], k)]

\* What is decrypted after an aggregation is the sum of the parameters the clients
\* encrypted, element by element along the rows, each update counted once in
\* every parameter, also when the same updates were aggregated before; a result
\* means that every update took part, with all elements, in each parameter.
AggregatesEveryUpdate ==
    phase = "decrypted" =>
        /\ Len(decrypted) = Len(prepared[1])
        /\ \A i \in DOMAIN decrypted :
            /\ \A u \in DOMAIN prepared :
                /\ i \in DOMAIN prepared[u]
                /\ DOMAIN decrypted[i] = DOMAIN flatten(prepared[u][i])
            /\ \A k \in DOMAIN decrypted[i] :
                decrypted[i][k] = SumFunctionOnSet(Inputs(i, k), DOMAIN prepared)
=============================================================================
