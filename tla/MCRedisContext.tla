----------------------------- MODULE MCRedisContext -----------------------------
EXTENDS RedisContext

(* Two conversions in a word, an empty argument, blanks at both ends and in    *)
(* between, a literal percent, CR LF inside an argument; and an invalid one.   *)
MCFormats == {<<<<" ", "S", "%b", "%%", " ", " ", "%s", " ">>, << <<CR, LF>>, <<>> >>>>,
              <<<<"k", " ", "%?">>, <<>>>>}
MCArgvs == {<< <<"P">> >>}
MCTrees == {Integer(-12), Array(<<Str("STRING", <<CR, LF>>), Array(<<Nil>>), Array(<<>>)>>),
            Array(<<Array(<<Array(<<>>)>>)>>)}
MCReadCuts == [block \in BOOLEAN |-> IF block THEN {1} ELSE {5}]
=================================================================================
