--------------------------- MODULE MCFirmwareUpdate ----------------------------
(* Slots of two sectors of two words of two units: an image that ends within a  *)
(* word, one with a wrong checksum, and what is no image, in uploads that end   *)
(* before the slot's end, fill it, and go beyond it.                            *)
EXTENDS FirmwareUpdate

CONSTANTS old, new, broken, text

MCImages == {old, new, broken, text}
MCNeeded == [image \in MCImages |-> IF image = new THEN 5 ELSE 3]
==============================================================================
