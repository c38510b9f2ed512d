------------------------------ MODULE MCKeyProcess ------------------------------
(***************************************************************************)
(* Instances of KeyProcess for TLC.                                        *)
(***************************************************************************)
EXTENDS KeyProcess, TLC

Bind(keys, mode, cmd) == [keys |-> keys, mode |-> mode, cmd |-> cmd]

Inputs == (<<"2">>    :> <<"2">>)   @@ (<<"-">>   :> <<"-">>)   @@ (<<"RET">> :> <<"RET">>)
       @@ (<<"C-u">>  :> <<"C-u">>) @@ (<<"C-x">> :> <<"C-x">>)
       @@ (<<"(">>    :> <<"(">>)   @@ (<<")">>   :> <<")">>)   @@ (<<"e">>   :> <<"e">>)
       @@ (<<"M", "c">> :> <<"ESC", "c">>)
       @@ (<<"E", <<"A">>>> :> <<"ESC", "[", "A">>)
       @@ (<<"E", <<"1", "1">>>> :> <<"ESC", "O", "P">>)
       @@ (<<"E", <<"1", "5">>>> :> <<"ESC", "[", "1", "5", "~">>)

Specials == {<<"C-u">>, <<"C-x">>, <<"RET">>, <<"M", "c">>, <<"E", <<"A">>>>,
             <<"E", <<"1", "1">>>>, <<"E", <<"1", "5">>>>}

TwoIsADigit == <<"2">> :> 2

(* M-c stands for describe-key-briefly, F1 for a command that reads its    *)
(* argument in the minibuffer, the arrow for one that may begin a search,  *)
(* go to the window of a question or end the editor, F5 for quoted-insert. *)
GlobalTable ==
    << Bind(<<Default>>, "any", "char"),
       Bind(<<<<"C-u">>>>, "any", "universal"),
       Bind(<<<<"C-x">>, <<"(">>>>, "any", "start"),
       Bind(<<<<"C-x">>, <<")">>>>, "any", "end"),
       Bind(<<<<"C-x">>, <<"e">>>>, "any", "call"),
       Bind(<<<<"M", "c">>>>, "any", "describe"),
       Bind(<<<<"RET">>>>, "any", "newline"),
       Bind(<<<<"E", <<"1", "1">>>>>>, "any", "ask"),
       Bind(<<<<"E", <<"A">>>>>>, "any", "switch"),
       Bind(<<<<"E", <<"1", "5">>>>>>, "any", "quote") >>

MinibufferTable == << Bind(<<<<"RET">>>>, "minibuffer", "exit") >>

TwoTables == <<GlobalTable, MinibufferTable>>
================================================================================
