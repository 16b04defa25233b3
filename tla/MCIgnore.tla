------------------------------- MODULE MCIgnore -------------------------------
(* Ignore with lines of up to three segments, for MCIgnore.cfg. *)
EXTENDS Ignore

CONSTANTS x, d

DotUndo == <<d, d>>
SomeNames == {<<x>>, DotUndo}

\* x * ? d* ** x/* x/** **/x **/x/** x/**/x x//x
Bodies == {<<x>>, <<Star>>, <<One>>, <<d, Star>>, <<Star, Star>>,
           <<x, Slash, Star>>, <<x, Slash, Star, Star>>,
           <<Star, Star, Slash, x>>, <<Star, Star, Slash, x, Slash, Star, Star>>,
           <<x, Slash, Star, Star, Slash, x>>, <<x, Slash, Slash, x>>}

\* Every one with and without a slash at its beginning and at its end, or
\* re-included and then with a blank behind it; and lines that say nothing, or
\* begin or end with more marks than one.
SomeLines ==
    {mark \o lead \o body \o end \o (IF mark = <<>> THEN <<>> ELSE <<Blank>>) :
        mark \in {<<>>, <<Bang>>}, lead \in {<<>>, <<Slash>>}, body \in Bodies,
        end \in {<<>>, <<Slash>>}}
    \cup {<<>>, <<Blank>>, <<Hash, x>>, <<Bang>>, <<Slash>>, <<Bang, Slash, Slash>>,
           <<Bang, Bang, x>>, <<Slash, Slash, x>>, <<Slash, Slash, Slash>>,
           <<x, Slash, Slash, Blank>>}
===============================================================================
