--------------------------- MODULE MCAttribution ---------------------------
(* A complete key and an incomplete one, of which bronze gets impressions  *)
(* and clicks; a window shorter than the range of timestamps, so that      *)
(* purchases fall before, in and after it.  Events in every form, except   *)
(* that an odd id or time does not come with snake_case names, and that    *)
(* without a context there is nothing in it.                               *)
EXTENDS Intake

CONSTANTS complete, partial

MCFullKeys == {complete}
MCPartialKeys == {partial}
MCAmounts == {1}
MCArriving ==
    {e \in Event : e.key = partial => e.type \in {"impression", "click"}}
MCWireEvents ==
    {e \in WireEvent :
        /\ e.context # "object" =>
              e.requestId = "absent" /\ e.request_id = "absent"
        /\ \/ e.eventId = "text" /\ e.ts = "zoned"
           \/ e.session_id = "absent" /\ e.request_id = "absent"}
=============================================================================
