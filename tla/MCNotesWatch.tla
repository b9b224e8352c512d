----------------------------- MODULE MCNotesWatch -----------------------------
EXTENDS NotesWatch

MCWalkOrder == <<"a", "b">>
===============================================================================
