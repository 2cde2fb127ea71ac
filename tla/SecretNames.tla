---------------------------- MODULE SecretNames ----------------------------
(***************************************************************************)
(* How the two token stores name what they keep, and what they note of its *)
(* owner (datastores/kv_stores.py, datastores/local_stores.py).  A word is *)
(* a sequence of characters.                                               *)
(***************************************************************************)
EXTENDS Naturals, Sequences, FiniteSets

CONSTANTS
    Letters,    \* letters and digits: they are left alone
    Anonymous,  \* what stands for a word without any
    BaseDir     \* where the file store keeps its directories

Dash == "-"
Slash == "/"

ASSUME WordAssumption ==
    /\ Dash \notin Letters
    /\ Anonymous \in Seq(Letters) /\ Anonymous # <<>>
    /\ BaseDir \in Seq(Seq(STRING))

\* A character that a secret name may not have becomes a dash.
Dashed(c) == IF c \in Letters THEN c ELSE Dash

\* Of a run of other characters one is kept, and none at either end.
LetterPlaces(word) == {i \in DOMAIN word : word[i] \in Letters}
Kept(word) ==
    LetterPlaces(word) \union
    {i \in DOMAIN word : i \notin LetterPlaces(word) /\ i - 1 \in LetterPlaces(word)
                            /\ \E j \in LetterPlaces(word) : j > i}

\* The k-th element of a set of positive numbers.
Rank(places, i) == Cardinality(places \intersect (1 .. i))
Place(places, k) == CHOOSE i \in places : Rank(places, i) = k

\* _sanitize
Sanitize(word) ==
    IF Kept(word) = {} THEN Anonymous
    ELSE [k \in 1 .. Cardinality(Kept(word)) |-> Dashed(word[Place(Kept(word), k)])]

\* _secret_name, without its prefix.
SecretName(user, server) == Append(Sanitize(server), Dash) \o Sanitize(user)

-------------------------------------------------------------------------------
(* Paths: what the host makes of a name with slashes *)

\* Without its slashes, a principal names one directory.
SafePrincipal(word) == [i \in DOMAIN word |-> IF word[i] = Slash THEN "_" ELSE word[i]]

\* A step from a directory to what has a name there.
Enter(dir, name) ==
    CASE name \in {<<>>, <<".">>} -> dir
      [] name = <<".", ".">> -> IF dir = <<>> THEN dir ELSE SubSeq(dir, 1, Len(dir) - 1)
      [] OTHER -> Append(dir, name)

\* The directory of a principal, which list_tokens reads.
Home(user) == Enter(BaseDir, SafePrincipal(user))

Slashes(word) == {i \in DOMAIN word : word[i] = Slash}

\* What is left of a word's k-th slash, up to the one before it.
Part(word, k) ==
    LET ends == Slashes(word) \union {0}
    IN  SubSeq(word, Place(ends, k - 1) + 1, Place(ends, k) - 1)

\* What is right of its last slash: the file's name, without the suffix.
FileName(word) ==
    IF Slashes(word) = {} THEN word
    ELSE SubSeq(word, Place(Slashes(word), Cardinality(Slashes(word))) + 1, Len(word))

\* The directory of a token: a server name with slashes leads out of the principal's,
\* and one that begins with a slash starts at the root.
Directory(user, server) ==
    IF Slashes(server) = {} THEN Home(user)
    ELSE LET at[k \in 0 .. Cardinality(Slashes(server))] ==
                 IF k = 0 THEN IF server[1] = Slash THEN <<>> ELSE Home(user)
                 ELSE Enter(at[k - 1], Part(server, k))
         IN  at[Cardinality(Slashes(server))]

\* The file that _token_path names: its directory's way from the root, and itself.
TokenPath(user, server) == Append(Directory(user, server), FileName(server))
=============================================================================
