------------------------------ MODULE DiscImage ------------------------------
(***************************************************************************)
(* What an image sink promises to the image writer, with no file in sight: *)
(* it takes a cue sheet, then the sectors of the disc, keeps every sector  *)
(* it has taken, and after the last one and the destroy call holds them    *)
(* all, next to the cue sheet.                                             *)
(***************************************************************************)
EXTENDS Integers

CONSTANT NoSheet

VARIABLES
    sheet,    \* the sectors the disc is to have, or NoSheet
    kept,     \* the sectors the image holds
    sealed    \* the image is complete and closed

imageVars == <<sheet, kept, sealed>>

ImageInit ==
    /\ sheet = NoSheet
    /\ kept = {}
    /\ sealed = FALSE

AcceptSheet ==
    /\ sheet = NoSheet
    /\ sheet' # NoSheet
    /\ sheet' \in SUBSET Nat
    /\ UNCHANGED <<kept, sealed>>

Keep ==
    /\ sheet # NoSheet
    /\ ~sealed
    /\ \E sector \in sheet : kept' = kept \cup {sector}
    /\ UNCHANGED <<sheet, sealed>>

Seal ==
    /\ sheet # NoSheet
    /\ kept = sheet
    /\ sealed' = TRUE
    /\ UNCHANGED <<sheet, kept>>

ImageNext == AcceptSheet \/ Keep \/ Seal

ImageSpec == ImageInit /\ [][ImageNext]_imageVars

=============================================================================
