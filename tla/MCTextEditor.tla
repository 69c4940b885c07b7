---------------------------- MODULE MCTextEditor ----------------------------
(* A line that begins with a tab and one that begins with a space, a line   *)
(* that ends with a tab, a clipboard of a line's end and a tab, and a low    *)
(* window and one of six lines.                                             *)
EXTENDS TextEditor

CONSTANTS a, space, tab

MCFiles == { << <<tab, a>>, <<space>> >>, << <<tab>>, <<a>> >> }
MCPages == {-1, 2}
MCClips == { << <<a>>, <<tab>> >> }
=============================================================================
