---------------------------- MODULE MCTokenStore ----------------------------
(* A small instance of TokenStore for TLC, and _sanitize on all short words. *)
EXTENDS TokenStore

CONSTANTS loop, callback

\* Users "c/a/c" and "c", servers "a" and "/a/c/a": in the vault, two of the pairs
\* have one name, and the tag of the second server differs from its name; in the
\* file store, below "/a", that server is a file of user "c", whoever names it.
TwoPrincipals == {<<"c", "/", "a", "/", "c">>, <<"c">>}
Elsewhere == <<"/", "a", "/", "c", "/", "a">>
TwoServers == {<<"a">>, Elsewhere}
TokenDir == <<<<"a">>>>
TwoWriters == {loop, callback}
FewLetters == {"a", "b", "c", "n", "o"}
AnonymousWord == <<"a", "n", "o", "n">>

ShortWords == UNION {[1 .. n -> {"a", "b", "-", "."}] : n \in 0 .. 4}
IsLetter(c) == c \in Letters
WithoutDashes(word) == SelectSeq(word, IsLetter)

\* The two substitutions and strip of _sanitize (kv_stores.py:41-43), said otherwise:
\* letters stay in their order, dashes stand between letters only, one at a place,
\* and there is one just where other characters were.
ASSUME SanitizeMeans ==
    \A word \in ShortWords :
        LET result == Sanitize(word) IN
        /\ \A i \in DOMAIN result : result[i] \in Letters \union {Dash}
        /\ \A i \in DOMAIN result : result[i] = Dash =>
              i \notin {1, Len(result)} /\ result[i - 1] # Dash
        /\ WithoutDashes(word) # <<>> => WithoutDashes(result) = WithoutDashes(word)
        /\ Sanitize(result) = result

\* What os.path.join and the host make of some server names (local_stores.py:29-33).
ASSUME TokenPathMeans ==
    LET b == <<"b", "/", "c">> IN
    /\ TokenPath(b, <<"a">>) = <<<<"a">>, <<"b", "_", "c">>, <<"a">>>>
    /\ TokenPath(b, Elsewhere) = TokenPath(<<"c">>, <<"a">>)
    /\ TokenPath(b, <<".", ".", "/", "c", "/", "/", "a">>) = TokenPath(<<"c">>, <<"a">>)
    /\ TokenPath(b, <<".", "/", "a">>) = TokenPath(b, <<"a">>)
    /\ TokenPath(<<".", ".">>, <<".", ".", "/", "b">>) = <<<<"b">>>>
    /\ TokenPath(<<>>, <<"a", "/">>) = <<<<"a">>, <<"a">>, <<>>>>
=============================================================================
