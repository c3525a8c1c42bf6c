----------------------------- MODULE IDocAdapter ----------------------------
(***************************************************************************)
(* IDocAdapter (integration/adapters/sap/idoc_adapter.py): process_idoc    *)
(* checks, parses, normalises and maps a document and posts the result to  *)
(* the Enterprise Distribution Service.  Parsing and posting are retried   *)
(* whatever they raised.  The handlers of segments and the mappings come   *)
(* from outside the class: the handler of HEAD segments supplies           *)
(* metadata.message_type, that of ITEM segments a value which the mapping  *)
(* validates, and MISC segments have none.                                 *)
(***************************************************************************)
EXTENDS Naturals, Sequences, FiniteSets, Functions

CONSTANTS
    MaxParse, MaxPost,    \* stop_after_attempt of the two retried methods
    SegmentLists          \* what a document may consist of: sequences of segments

Segments == [segment : {"HEAD", "ITEM", "MISC"}, docnum : Nat]

\* Limits on numbers of attempts are positive, as the defaults in the code are.
ASSUME IDocAssumption == MaxPost \in Nat \ {0} /\ SegmentLists \subseteq Seq(Segments)

VARIABLES
    doc,             \* the document in hand
    step,            \* where process_idoc is; "idle" before, "success" or "raised" after
    tries,           \* attempts of the retried method that runs
    ingested         \* copies of the document the service took in

idocVars == <<doc, step, tries, ingested>>

Documents ==
    [signed : BOOLEAN, wellFormed : BOOLEAN, version : {"3.0", "4.0", "other"},
     segments : SegmentLists, value : {"valid", "invalid", "empty"}]

IDocInit ==
    /\ doc = [signed |-> TRUE, wellFormed |-> TRUE, version |-> "3.0",
              segments |-> <<>>, value |-> "empty"]
    /\ step = "idle"
    /\ tries = 0 /\ ingested = 0

IDocGoto(place) == step' = place /\ tries' = 0

\* process_idoc, which begins with _validate_signature.  A call leaves nothing
\* behind in the adapter that the next one could see.
ProcessIdoc ==
    /\ step = "idle"
    /\ doc' \in Documents
    /\ IDocGoto(IF doc'.signed THEN "parse" ELSE "raised")
    /\ UNCHANGED ingested

\* seg_id joins the type of a segment and its DOCNUM.
Duplicate(segs) == \E i, j \in DOMAIN segs : i # j /\ segs[i] = segs[j]

Parses_NotChecked(d) == d.wellFormed /\ d.version \in {"3.0", "4.0"}

Parses(d) == d.wellFormed /\ d.version \in {"3.0", "4.0"} /\ ~Duplicate(d.segments)

\* tenacity calls the method again, or raises when it has been called often
\* enough.
Retry(limit) ==
    IF tries + 1 < limit THEN tries' = tries + 1 /\ UNCHANGED step ELSE IDocGoto("raised")

ParseIdoc ==
    /\ step = "parse"
    /\ IF Parses(doc) THEN IDocGoto("map") ELSE Retry(MaxParse)
    /\ UNCHANGED <<doc, ingested>>

Has(type) == \E i \in DOMAIN doc.segments : doc.segments[i].segment = type

\* A value that is missing or empty is not validated.
FieldIsValid == Has("ITEM") => doc.value # "invalid"

\* _normalize_data and _transform_to_edi; a KeyError when no handler gave the
\* message type.
TransformToEdi ==
    /\ step = "map"
    /\ IDocGoto(IF Has("HEAD") /\ FieldIsValid THEN "post" ELSE "raised")
    /\ UNCHANGED <<doc, ingested>>

-----------------------------------------------------------------------------
(* _dispatch_to_eds.                                                       *)

\* The request does not arrive, or the service refuses it.
PostFails == step = "post" /\ Retry(MaxPost) /\ UNCHANGED <<doc, ingested>>

\* The service takes it in; the answer is lost, or it is a success but the
\* metrics cannot be posted.
PostedButRetried ==
    /\ step = "post"
    /\ ingested' = ingested + 1
    /\ Retry(MaxPost)
    /\ UNCHANGED doc

\* _send_acknowledgement, which comes from outside too, may raise.
Posted ==
    /\ step = "post"
    /\ ingested' = ingested + 1
    /\ IDocGoto("success") \/ IDocGoto("raised")
    /\ UNCHANGED doc

IDocProceed == ParseIdoc \/ TransformToEdi \/ PostFails \/ PostedButRetried \/ Posted

IDocNext == ProcessIdoc \/ IDocProceed

\* Requests have an end, with an answer or an exception.
IDocSpec == IDocInit /\ [][IDocNext]_idocVars /\ WF_idocVars(IDocProceed)

-----------------------------------------------------------------------------
Acceptable(d) ==
    /\ d.signed /\ d.wellFormed /\ d.version # "other"
    /\ Cardinality(Range(d.segments)) = Len(d.segments)
    /\ \E s \in Range(d.segments) : s.segment = "HEAD"
    /\ d.value = "invalid" => \A s \in Range(d.segments) : s.segment # "ITEM"

\* The service takes in nothing of a document that any of the checks refuses,
\* and at most MaxPost copies of another; a caller who is told of success knows
\* that there is one, a caller who gets an exception does not know.
DeliversWhatItAccepts ==
    /\ ingested > 0 => Acceptable(doc)
    /\ ingested <= MaxPost
    /\ step = "success" => ingested > 0
=============================================================================
