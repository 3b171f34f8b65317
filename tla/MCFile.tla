------------------------------- MODULE MCFile -------------------------------
(* Small instances of File for TLC. *)
EXTENDS File

CONSTANTS A1, A2, A3

MCArchives == {A1, A2, A3}

\* One archive with an entry of each harmless kind, one with each harmful one;
\* the third has a directory that is no object, or is not there until somebody
\* packs it.
MCListed ==
  A1 :> Directory(<<"a">> :> "good" @@ <<"d", "a">> :> "good" @@ <<"c">> :> "corrupt")
  @@ A2 :> Directory(<<"a">> :> "good" @@ <<"b">> :> "misaddressed"
                     @@ <<"c">> :> "unreadable" @@ <<"d">> :> "beyond")

MCEarlier == {MCListed, MCListed @@ A3 :> NoObject}

MCUp == ".."
MCFiles == {<<"a">>}

\* Below the folder that the program calls data: what either archive lists, a
\* folder, a folder that is not there, ways through "..", and out of the archive.
MCPaths ==
  {<<"data">> \o p : p \in
     {<<"a">>, <<"b">>, <<"c">>, <<"d">>, <<"d", "a">>, <<"x", "a">>,
      <<"d", MCUp, "a">>, <<"d", MCUp, "d", "a">>, <<MCUp, "a">>}}

MCFolder ==
  {<<"data", "a">>, <<"data", "b">>, <<"data", "c">>, <<"data", "d">>, <<"data", "d", "a">>}
=============================================================================
