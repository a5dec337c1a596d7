------------------------------- MODULE MCProcess -------------------------------
(* Instances of Process for TLC. *)
EXTENDS Process, TLC

CONSTANTS DB, Elsewhere  \* two database URLs

BuiltIn == [port |-> 8080, url |-> Elsewhere, origins |-> <<"local">>, level |-> "info"]

\* "loud" names no level; neither does the empty text.
Tidied == (" DEBUG " :> "debug") @@ (" " :> "") @@ ("Loud" :> "loud")
LogLevels == ("debug" :> "debug") @@ ("info" :> "info") @@ ("warn" :> "warn")

Files ==
  {Missing, Broken,
   [port |-> 9090, url |-> Unset, origins |-> <<"site">>, level |-> "warn"],
   [port |-> Unset, url |-> DB, origins |-> Unset, level |-> Unset]}

Envs ==
  [port : {Unset, Malformed, 8080}, url : {Unset, DB},
   origins : {Unset, <<Blank, "page">>},
   level : {Unset} \cup DOMAIN Tidied]
=============================================================================
