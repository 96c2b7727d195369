--------------------------- MODULE GzDiagnosticPath ---------------------------
(***************************************************************************)
(* gz_normalize_document_path(): the key under which the diagnostic store  *)
(* keeps a document, however its path is written.  A text is what lies     *)
(* between its slashes: "/a" is <<"", "a">>, "res://a" is                  *)
(* <<"res:", "", "a">>.  This is the build for systems other than Windows. *)
(***************************************************************************)
EXTENDS Naturals, Sequences, SequencesExt

CONSTANT MaxSegments    \* bound on the segments of a path

ASSUME PathConstants == MaxSegments \in Nat

\* "C:" stands for one letter and a colon
Colons == {"file:", "res:", "C:"}
Encoded == {"%2e%2e", "a%2Fa"}
Segments == {"", ".", "..", "a"} \cup Colons \cup Encoded

VARIABLE path   \* a text that a producer of diagnostics gives as a path

-----------------------------------------------------------------------------

\* uri_decode() of a segment, which may become several
Decoded(s) ==
    CASE s = "%2e%2e" -> <<"..">>
      [] s = "a%2Fa" -> <<"a", "a">>
      [] OTHER -> <<s>>

HasScheme(p) == Len(p) > 2 /\ p[1] \in Colons /\ p[2] = ""

\* what follows a scheme's "://"
AfterScheme(p) == SubSeq(p, 3, Len(p))

\* file://host/abs becomes absolute, unless there is a colon, as in C:/abs
FromFile(w) ==
    IF w # <<"">> /\ w[1] # "" /\ \A n \in DOMAIN w : w[n] \notin Colons
    THEN <<"">> \o w ELSE w

\* a slash after another scheme is left out
FromScheme(w) == IF Len(w) > 1 /\ w[1] = "" THEN Tail(w) ELSE w

\* uri_decode()
Decode(p) == FoldLeft(LAMBDA text, s : text \o Decoded(s), <<>>, p)

\* the scheme that is kept, and the text that is resolved
Prefix(p) == IF HasScheme(p) /\ p[1] # "file:" THEN <<p[1], "">> ELSE <<>>

Work(p) ==
    CASE ~HasScheme(p) -> p
      [] HasScheme(p) /\ p[1] = "file:" ->
            FromFile(Decode(AfterScheme(p)))
      [] OTHER -> FromScheme(AfterScheme(p))

Rooted(w) == Len(w) > 1 /\ w[1] = ""
HasDrive(w) == w[1] = "C:"

\* mutant: a drive can be left with ".."
ResolveDrive(w, parts, s) ==
    LET removable == parts # <<>> /\ Last(parts) # ".."
    IN  CASE s \in {"", "."} -> parts
          [] s = ".." /\ removable -> Front(parts)
          [] s = ".." /\ ~removable ->
                IF Rooted(w) \/ HasDrive(w) THEN parts ELSE Append(parts, s)
          [] OTHER -> Append(parts, s)

\* one segment of the loop: ".." takes the last part back, if there is one
\* that can be taken; above a root it is left out, otherwise it is kept
Resolve(w, parts, s) ==
    LET removable == /\ parts # <<>> /\ Last(parts) # ".."
                     /\ ~(Len(parts) = 1 /\ HasDrive(w))
    IN  CASE s \in {"", "."} -> parts
          [] s = ".." /\ removable -> Front(parts)
          [] s = ".." /\ ~removable ->
                IF Rooted(w) \/ HasDrive(w) THEN parts ELSE Append(parts, s)
          [] OTHER -> Append(parts, s)

\* the loop
Parts(w, segments) == FoldLeft(LAMBDA parts, s : Resolve(w, parts, s), <<>>, segments)

\* gz_normalize_document_path()
Key(p) ==
    LET w     == Work(p)
        parts == Parts(w, w)
    IN  Prefix(p) \o
            CASE Rooted(w) -> <<"">> \o (IF parts = <<>> THEN <<"">> ELSE parts)
              [] ~Rooted(w) /\ parts = <<>> -> <<".">>
              [] OTHER -> parts

\* a producer writes a path
PathInit == path \in {<<s>> : s \in Segments}

\* a drive or a scheme comes before any name
Extend(s) ==
    /\ Len(path) < MaxSegments
    /\ s \in Colons => \A n \in DOMAIN path : path[n] \in Colons \cup {""}
    /\ path' = Append(path, s)

PathNext == \E s \in Segments : Extend(s)

PathSpec == PathInit /\ [][PathNext]_path

-----------------------------------------------------------------------------
(* Properties                                                              *)

\* res:////a, whose key is res:///a, whose key is res://a
RootUnderScheme(p) == Prefix(p) # <<>> /\ Rooted(Work(p))

\* Where a path leads: how many directories up from the anchor (the current
\* directory, a drive or the root), and then down which names.
Anchor(w) == CASE HasDrive(w) -> "drive"
               [] ~HasDrive(w) /\ Rooted(w) -> "root"
               [] OTHER -> "here"

Walk(anchor, at, s) ==
    CASE s \in {"", "."} -> at
      [] s = ".." /\ at.down # <<>> -> [at EXCEPT !.down = Front(@)]
      [] s = ".." /\ at.down = <<>> ->
            IF anchor = "here" THEN [at EXCEPT !.up = @ + 1] ELSE at
      [] OTHER -> [at EXCEPT !.down = Append(@, s)]

Walked(anchor, segments) ==
    FoldLeft(LAMBDA at, s : Walk(anchor, at, s), [up |-> 0, down |-> <<>>], segments)

Spot(w) == Walked(Anchor(w), IF HasDrive(w) THEN Tail(w) ELSE w)

Meaning(p) == [prefix |-> Prefix(p), anchor |-> Anchor(Work(p)), at |-> Spot(Work(p))]

\* a text in which no segment is left to resolve
Reduced(w) ==
    \/ w \in {<<".">>, <<"", "">>}
    \/ \A n \in DOMAIN w :
          /\ w[n] # "." /\ (w[n] = "" => n = 1)
          /\ w[n] = ".." => \A m \in 1..n : w[m] = ".."

\* "Returns the canonical key for a document path. Idempotent." and
\* "Producers must agree on identity": the key leads where the path leads, it
\* is its own key, and nothing is left in it that another spelling could leave
\* out, so two paths have one key exactly when they lead to one place.  A root
\* under a scheme is excepted.
OneKey ==
    ~RootUnderScheme(path) =>
        /\ Meaning(Key(path)) = Meaning(path)
        /\ Key(Key(path)) = Key(path)
        /\ Reduced(Work(Key(path)))

=============================================================================
