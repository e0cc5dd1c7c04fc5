---------------------------- MODULE MCLspServer ----------------------------
(* Small editors for LspServer: one or two documents, two texts.  At the    *)
(* bounds MaxVersion and MaxInbox the editor has nothing left to send.      *)
EXTENDS LspServer
=============================================================================
