------------------------------ MODULE MCEngine ------------------------------
(* Small instances of Engine.                                               *)
EXTENDS Engine, TLC
CONSTANTS a1, a2, d1, junk, quoted

\* "tag" is another spelling of a1, as in a.b@gmail.com and ab+x@gmail.com.
Spellings == "one" :> a1 @@ "tag" :> a1 @@ "two" :> a2 @@ "junk" :> junk @@ "quoted" :> quoted
MixedList == <<"one", "tag", "one", "two", "junk", "quoted">>
Single == <<"one">>

OneDomain == a1 :> d1 @@ a2 :> d1
=============================================================================
