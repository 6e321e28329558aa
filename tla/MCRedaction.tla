---------------------------- MODULE MCRedaction ----------------------------
(* Values that are nested, overlap themselves, each other or the marker, or  *)
(* are too long; chunks of up to two symbols.                               *)
EXTENDS RedactionCollector

MCMarker == <<"m", "n">>

MCPatternSets ==
    { {}, {<<"a", "a">>}, {<<"a", "b">>}, {<<"a", "b", "a">>},
      {<<"b">>, <<"a", "b">>}, {<<"a", "b">>, <<"b", "a">>}, {<<"a">>, <<"b", "b", "b">>},
      {<<"a", "b">>, <<"a", "b", "b">>}, {<<"n", "a">>, <<"b">>}, {<<"a", "a", "a", "a">>},
      {<<"a">>, <<"b">>, <<"a", "b">>} }
=============================================================================
