---------------------------- MODULE MCFlashStorage ----------------------------
(* FlashStorage with its assumptions; the values are those of MCFlash.cfg. *)
EXTENDS FlashStorage
=============================================================================
