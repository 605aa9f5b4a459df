---------------------------- MODULE MCPipeShell ----------------------------
(***************************************************************************)
(* Inputs of one to three lines of one to four commands: four are enough   *)
(* for the descriptors of the first pipe to be taken again by the third.   *)
(***************************************************************************)
EXTENDS PipeShell

Src  == <<"source">>
Fil  == <<"filter">>
Echo == <<"stdin_echo">>
Sh(command) == <<"sh">> \o command

Rows == {<<Src>>, <<Src, Fil>>, <<Src, Echo, Fil>>, <<Src, Fil, Fil, Fil>>}

(* Lines with commands that end early, or cannot be executed. *)
Broken == {<<Src, <<"bad">>>>, <<Src, <<"head">>>>, <<Src, <<"bad">>, Fil>>,
           <<Src, Fil, <<"head">>>>, <<Src, Fil, Fil, <<"bad">>>>, <<<<"head">>, Fil, Fil>>}

InShells == {<<Sh(Src), Fil>>, <<Src, Sh(Fil)>>, <<Src, Sh(<<"head">>)>>, <<Sh(Src), Sh(<<"bad">>)>>}

BadFirst == {<<<<"bad">>>>, <<<<"bad">>, Fil>>, <<<<"bad">>, Fil, Fil>>}

(* A line that does not begin with a command that cannot be executed, and  *)
(* any other one after it.                                                 *)
GoodInputs ==
    {<<l, m>> : l \in Rows \cup Broken \cup InShells,
                m \in BadFirst \cup {<<Src, Fil>>, <<Src, <<"bad">>>>, Exit}}

(* A command that cannot be executed, and a line after it. *)
BadThenGood == {<<<<<<"bad">>>>, <<Src>>>>}
=============================================================================
