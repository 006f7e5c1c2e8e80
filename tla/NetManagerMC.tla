---------------------------- MODULE NetManagerMC ----------------------------
(***************************************************************************)
(* A small world for NetManager: the built-in settings work, and so do the *)
(* user's good ones, alone or together; mistyped ones and a network without *)
(* a name do not.                                                          *)
(***************************************************************************)
EXTENDS NetManager

CONSTANTS Good, Bad   \* texts that the user enters

NetworksMC  == {<<BuiltIn, BuiltIn>>, <<Good, Good>>}
ApiKeysMC   == {BuiltIn, Good}
TalkbacksMC == {<<BuiltIn, BuiltIn>>, <<Good, Good>>}

EntriesMC == [id : {NoText}, str1 : {Good, NoText}, str2 : {Good, Bad}]
             \cup [id : {Good}, str1 : {Good, Bad}, str2 : {Good, Bad}]

=============================================================================
