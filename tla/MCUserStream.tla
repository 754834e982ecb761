---------------------------- MODULE MCUserStream ----------------------------
(* UserStream over all sections of MaxLen bytes and all symbol tables of   *)
(* up to three symbols: at the start of the section, inside it, where they *)
(* may cut an instruction, and behind its end.                             *)
EXTENDS UserStream, SequencesExt

CONSTANT MaxLen           \* bound: the bytes of the section

MCTexts ==
  {t \in [1 .. MaxLen -> 0 .. 3] : \A o \in 1 .. MaxLen : o + t[o] <= MaxLen + 1}

MCSymbolTables == SeqOf([addr : {1, 3, MaxLen + 1}, user : BOOLEAN], 3)
=============================================================================
