--------------------------- MODULE GzImportScanner ---------------------------
(***************************************************************************)
(* source_dependencies() of gz_build_manager.cpp reads a Zig source text   *)
(* for its @import and @embedFile calls; what it finds goes into the cache *)
(* key.  It is run here beside the tokenizer of the Zig compiler, both as  *)
(* automata that read the same text one character after the other, so the  *)
(* texts have any length.  A character is one of the classes the two tell  *)
(* apart; "import" stands for the whole word @import (or @embedFile).      *)
(***************************************************************************)

CONSTANT
    MayUseMultiline     \* whether the text may have multiline strings (\\ ...)

ASSUME ScannerConstants == MayUseMultiline \in BOOLEAN

Blanks == {"space", "newline"}
Chars == Blanks \cup {"slash", "quote", "apostrophe", "backslash", "import", "paren", "other"}

\* the ways the scanner has of looking at the next character; "failed" when
\* it has returned false
ScanModes == {"code", "slash", "comment", "string", "stringEscape", "char",
              "charEscape", "import", "open", "name", "failed"}

\* the compiler's: it knows escapes in names, comments between the tokens of
\* a call, and multiline strings
LexModes == (ScanModes \ {"failed"}) \cup
            {"nameEscape", "importSlash", "importComment", "openSlash",
             "openComment", "backslash", "multiline", "error"}

VARIABLES
    scan,       \* where source_dependencies() is
    lex,        \* where the compiler's tokenizer is
    missed      \* the compiler has read an import that the scanner has not

scannerVars == <<scan, lex, missed>>

-----------------------------------------------------------------------------
(* source_dependencies()                                                   *)

\* mutant: a quotation mark in single quotes starts a string
ScanCodeNoChars(c) ==
    CASE c = "slash" -> "slash"
      [] c = "quote" -> "string"
      [] c = "import" -> "import"
      [] OTHER -> "code"

ScanCode(c) ==
    CASE c = "slash" -> "slash"
      [] c = "quote" -> "string"
      [] c = "apostrophe" -> "char"
      [] c = "import" -> "import"
      [] OTHER -> "code"

\* inside of quotes: a backslash takes the next character with it
Quoted(c, end, inside, escape) ==
    CASE c = end -> "code"
      [] c = "backslash" -> escape
      [] OTHER -> inside

Scan(m, c) ==
    CASE m = "code" -> ScanCode(c)
      [] m = "slash" -> IF c = "slash" THEN "comment" ELSE ScanCode(c)
      [] m = "comment" -> IF c = "newline" THEN "code" ELSE "comment"
      [] m = "string" -> Quoted(c, "quote", "string", "stringEscape")
      [] m = "stringEscape" -> "string"
      [] m = "char" -> Quoted(c, "apostrophe", "char", "charEscape")
      [] m = "charEscape" -> "char"
      [] m = "import" -> CASE c \in Blanks -> "import"
                           [] c = "paren" -> "open"
                           [] OTHER -> "failed"
      [] m = "open" -> CASE c \in Blanks -> "open"
                         [] c = "quote" -> "name"
                         [] OTHER -> "failed"
      [] m = "name" -> Quoted(c, "quote", "name", "failed")
      [] m = "failed" -> "failed"

\* source_dependencies() returns false if the text ends here: prepare() then
\* fingerprints the whole directory instead
ScanFails == scan \in {"import", "open", "name", "failed"}

-----------------------------------------------------------------------------
(* The compiler's tokenizer                                                *)

LexCode(c) ==
    CASE c = "slash" -> "slash"
      [] c = "quote" -> "string"
      [] c = "apostrophe" -> "char"
      [] c = "import" -> "import"
      [] c = "backslash" -> IF MayUseMultiline THEN "backslash" ELSE "error"
      [] OTHER -> "code"

\* a string ends on its line, or the text is no program
LexQuoted(c, end, after, inside, escape) ==
    CASE c = end -> after
      [] c = "backslash" -> escape
      [] c = "newline" -> "error"
      [] OTHER -> inside

LexEscape(c, inside) == IF c = "newline" THEN "error" ELSE inside

Lex(m, c) ==
    CASE m = "code" -> LexCode(c)
      [] m = "slash" -> IF c = "slash" THEN "comment" ELSE LexCode(c)
      [] m = "comment" -> IF c = "newline" THEN "code" ELSE "comment"
      [] m = "string" -> LexQuoted(c, "quote", "code", "string", "stringEscape")
      [] m = "stringEscape" -> LexEscape(c, "string")
      [] m = "char" -> LexQuoted(c, "apostrophe", "code", "char", "charEscape")
      [] m = "charEscape" -> LexEscape(c, "char")
      [] m = "import" -> CASE c \in Blanks -> "import"
                           [] c = "paren" -> "open"
                           [] c = "slash" -> "importSlash"
                           [] OTHER -> "error"
      [] m = "importSlash" -> IF c = "slash" THEN "importComment" ELSE "error"
      [] m = "importComment" -> IF c = "newline" THEN "import" ELSE "importComment"
      [] m = "open" -> CASE c \in Blanks -> "open"
                         [] c = "quote" -> "name"
                         [] c = "slash" -> "openSlash"
                         [] OTHER -> "error"
      [] m = "openSlash" -> IF c = "slash" THEN "openComment" ELSE "error"
      [] m = "openComment" -> IF c = "newline" THEN "open" ELSE "openComment"
      [] m = "name" -> LexQuoted(c, "quote", "code", "name", "nameEscape")
      [] m = "nameEscape" -> LexEscape(c, "name")
      [] m = "backslash" -> IF c = "backslash" THEN "multiline" ELSE "error"
      [] m = "multiline" -> IF c = "newline" THEN "code" ELSE "multiline"

-----------------------------------------------------------------------------

ScannerInit ==
    /\ scan = "code"
    /\ lex = "code"
    /\ missed = FALSE

\* the next character of a text that the compiler does not reject here
ReadChar(c) ==
    /\ Lex(lex, c) # "error"
    /\ scan' = Scan(scan, c)
    /\ lex' = Lex(lex, c)
    /\ missed' = (missed \/ (lex = "name" /\ c = "quote" /\ scan # "name"))

ScannerNext == \E c \in Chars : ReadChar(c)

ScannerSpec == ScannerInit /\ [][ScannerNext]_scannerVars

-----------------------------------------------------------------------------
(* Properties                                                              *)

\* The variables have their types.
ScannerTypeOK ==
    /\ scan \in ScanModes
    /\ lex \in LexModes
    /\ missed \in BOOLEAN

\* "changing an imported Zig file reused a stale module" never happens: at
\* the end of a program every import the compiler follows is in the key, or
\* the scanner has given up and the key covers the whole directory.
ImportsFound ==
    missed /\ lex \in {"code", "comment", "multiline"} => ScanFails

=============================================================================
