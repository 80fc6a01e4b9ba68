----------------------------- MODULE URLProofs -----------------------------
(***************************************************************************)
(* For every text, base and assignment, the parser comes to an end, and    *)
(* what the constructor makes is a whole URL.                              *)
(***************************************************************************)
EXTENDS URL, SequenceTheorems, WellFoundedInduction, TLAPS

Segments == Seq(Char)
Fields == DOMAIN BlankURL

\* What the proofs need to know of the shape of a record.
Shaped(record) == DOMAIN record = Fields /\ record.path \in Seq(Segments)

-----------------------------------------------------------------------------
(* The parser's place in its input.                                        *)

\* The states between the scheme and the authority.
Unlocated == {"SPECIAL_RELATIVE_OR_AUTHORITY", "PATH_OR_AUTHORITY", "RELATIVE_SLASH",
              "SPECIAL_AUTHORITY_SLASHES", "SPECIAL_AUTHORITY_IGNORE_SLASHES"}

PlaceOK ==
    /\ input \in Seq(Char)
    /\ index \in Nat
    /\ buffer \in Seq(Char)
    /\ state \in States
    /\ index <= Len(input) + 1
    /\ returned \in BOOLEAN
    /\ state = "AUTHORITY" => Len(buffer) <= index
    /\ state \in {"SCHEME_START", "NO_SCHEME", "RELATIVE"} \cup Unlocated => buffer = <<>>

-----------------------------------------------------------------------------
(* The record, state by state, in a call that overrides nothing.           *)

NoCredentials == ~HasCredentials(url) /\ url.port = None

\* Nothing but the scheme is known.
Bare == NoCredentials /\ url.host = NoHost /\ url.path = <<>> /\ ~url.cannotBeBase

\* The authority is known; a path may follow.
Located ==
    /\ ~url.cannotBeBase
    /\ url.special /\ url.scheme # FileScheme => ~EmptyHost(url.host)
    /\ HasCredentials(url) \/ url.port # None =>
           ~EmptyHost(url.host) /\ url.scheme # FileScheme

Ends(c) == c \in {Undefined, "/", "?", "#"} \/ (url.special /\ c = "\\")

\* The states in which the loop may run out of input.
LastStates == {"RELATIVE", "FILE", "PATH_START", "PATH", "CANNOT_BE_BASE", "QUERY", "FRAGMENT"}

BeforeScheme ==
    state \in {"SCHEME_START", "SCHEME", "NO_SCHEME"} => url = BlankURL

BeforeAuthority ==
    state \in Unlocated =>
        Bare /\ url.scheme # FileScheme /\ (state = "PATH_OR_AUTHORITY" => ~url.special)

AgainstBase ==
    /\ state \in {"SPECIAL_RELATIVE_OR_AUTHORITY", "RELATIVE", "RELATIVE_SLASH"} =>
           base # None /\ ~base.cannotBeBase /\ base.scheme # FileScheme
    /\ state \in {"SPECIAL_RELATIVE_OR_AUTHORITY", "RELATIVE_SLASH"} => url.scheme = base.scheme
    /\ state = "RELATIVE" => IF index <= Len(input) THEN Bare ELSE Whole(url)

InAuthority ==
    /\ state \in {"SCHEME_START", "SCHEME", "NO_SCHEME", "RELATIVE"} \cup Unlocated => ~atflag
    /\ state \in {"AUTHORITY", "HOST"} =>
           /\ url.host = NoHost /\ url.port = None /\ url.path = <<>>
           /\ ~url.cannotBeBase /\ url.scheme # FileScheme
    /\ state = "AUTHORITY" =>
           /\ HasCredentials(url) => atflag
           /\ buffer # <<>> => ~Ends(At(index - Len(buffer)))
    /\ state = "HOST" /\ HasCredentials(url) /\ buffer = <<>> => ~Ends(Ch)
    /\ state = "PORT" =>
           /\ ~EmptyHost(url.host) /\ url.scheme # FileScheme
           /\ url.path = <<>> /\ ~url.cannotBeBase

InFile ==
    /\ state \in {"FILE", "FILE_SLASH", "FILE_HOST"} => url.scheme = FileScheme
    /\ state \in {"FILE_SLASH", "FILE_HOST"} => Bare
    /\ state = "FILE" => IF index <= Len(input) THEN Bare ELSE Whole(url)

InPath ==
    /\ state \in {"PATH_START", "PATH"} => Located
    /\ state = "PATH_START" /\ url.special => index <= Len(input)
    /\ state = "PATH" /\ url.special => index <= Len(input) \/ url.path # <<>>
    /\ state = "CANNOT_BE_BASE" => Whole(url) /\ url.cannotBeBase

AfterPath == state \in {"QUERY", "FRAGMENT"} => Whole(url)

RecordOK ==
    /\ Shaped(url)
    /\ url.special <=> isSpecial(url.scheme)
    /\ state # "HOSTNAME"
    /\ state \notin LastStates => index <= Len(input)
    /\ BeforeScheme /\ BeforeAuthority /\ AgainstBase /\ InAuthority
    /\ InFile /\ InPath /\ AfterPath

BaseOK == base # None => Shaped(base) /\ Whole(base)

URLInvariant ==
    /\ PlaceOK
    /\ BaseOK
    /\ DOMAIN url = Fields
    /\ call \in {"none", "thrown"} => Finished
    /\ call \in {"base", "url", "href"} => stateOverride = None
    /\ stateOverride = None /\ ~returned => RecordOK
    /\ stateOverride = None /\ returned /\ call # "none" => url.failed
-----------------------------------------------------------------------------
(* One turn of the loop.                                                   *)

Turn ==
    /\ PlaceOK'
    /\ returned' \/ Rank(state') < Rank(state) \/ (state' = state /\ index' > index)

\* In a call that overrides nothing.
Kept == IF returned' THEN url'.failed ELSE RecordOK'

LEMMA UndefinedIsNoChar ==
    Undefined \notin Letters /\ Undefined \notin DigitsOf(10) /\ Undefined \notin Char
<1>1. Undefined \notin DigitsOf(10)
  BY DEF Undefined, DigitsOf, Numerals
<1>2. Undefined \notin Punctuation
  BY DEF Undefined, Punctuation
<1> QED
  BY <1>1, <1>2, LettersAssumption DEF Undefined, Char

\* A character that is there is one of input, and there is a next place.
LEMMA CharRead ==
    ASSUME PlaceOK, ~Finished
    PROVE  /\ ~returned /\ index <= Len(input) /\ Len(input) \in Nat
           /\ Ch # Undefined => index + 1 <= Len(input) /\ Ch \in Char
           /\ index + 1 <= Len(input) => Ch # Undefined
           /\ At(index + 1) # Undefined => index + 2 <= Len(input)
           /\ Ch \in Letters => Ch # Undefined
           /\ isASCIIDigit(Ch) => Ch # Undefined
<1>1. index \in Nat /\ Len(input) \in Nat /\ ~returned /\ index <= Len(input)
  BY DEF PlaceOK, Finished
<1>2. \A i \in Nat : i < Len(input) => input[i + 1] \in Char
  BY <1>1, ElementOfSeq DEF PlaceOK
<1>3. \A i \in Nat : i < Len(input) => At(i) \in Char /\ At(i) # Undefined
  BY <1>2, UndefinedIsNoChar DEF At
<1>4. \A i \in Nat : i >= Len(input) => At(i) = Undefined
  BY <1>1 DEF At
<1>5. Ch # Undefined => index + 1 <= Len(input) /\ Ch \in Char
  BY <1>1, <1>3, <1>4 DEF Ch
<1>6. index + 1 <= Len(input) => Ch # Undefined
  BY <1>1, <1>3 DEF Ch
<1>7. At(index + 1) # Undefined => index + 2 <= Len(input)
  BY <1>1, <1>4
<1> QED
  BY <1>1, <1>5, <1>6, <1>7, UndefinedIsNoChar DEF isASCIIDigit

LEMMA BufferTyped ==
    ASSUME PlaceOK,
           UNCHANGED buffer \/ buffer' = <<>> \/ \E c \in Char : buffer' = Append(buffer, c)
    PROVE  buffer' \in Seq(Char)
<1>1. CASE UNCHANGED buffer
  BY <1>1 DEF PlaceOK
<1>2. CASE buffer' = <<>>
  BY <1>2, EmptySeq
<1>3. ASSUME NEW c \in Char, buffer' = Append(buffer, c)
      PROVE  buffer' \in Seq(Char)
  BY <1>3, AppendProperties DEF PlaceOK
<1> QED
  BY <1>1, <1>2, <1>3

LEMMA LeftDecreases ==
    ASSUME PlaceOK, Turn, UNCHANGED input
    PROVE  returned' \/ (Left' \in Nat /\ Left' < Left)
<1> DEFINE n == Len(input)
<1>1. n \in Nat /\ index \in 0..(n + 1) /\ index' \in 0..(n + 1)
  BY DEF PlaceOK, Turn
<1>2. Rank(state) \in Nat /\ Rank(state') \in Nat
  BY DEF PlaceOK, Turn, Rank, States
<1>3. \A q, r \in Nat, i, j \in 0..(n + 1) :
          q < r => q * (n + 2) + (n + 1 - j) < r * (n + 2) + (n + 1 - i)
  <2> SUFFICES ASSUME NEW q \in Nat, NEW r \in Nat, NEW i \in 0..(n + 1), NEW j \in 0..(n + 1),
                      q < r
               PROVE  q * (n + 2) + (n + 1 - j) < r * (n + 2) + (n + 1 - i)
    OBVIOUS
  <2>1. (q + 1) * (n + 2) <= r * (n + 2)
    BY <1>1
  <2> QED
    BY <1>1, <2>1
<1>4. \A q \in Nat, j \in 0..(n + 1) : q * (n + 2) + (n + 1 - j) \in Nat
  BY <1>1
<1>5. Left = Rank(state) * (n + 2) + (n + 1 - index)
  BY DEF Left
<1>6. Left' = Rank(state') * (n + 2) + (n + 1 - index')
  BY DEF Left
<1> HIDE DEF n
<1>7. Left' \in Nat
  BY <1>1, <1>2, <1>4, <1>6
<1>8. CASE Rank(state') < Rank(state)
  BY <1>1, <1>2, <1>3, <1>5, <1>6, <1>7, <1>8
<1>9. CASE state' = state /\ index' > index
  <2>1. \A m \in Nat, i, j \in 0..(n + 1) : j > i => m + (n + 1 - j) < m + (n + 1 - i)
    BY <1>1
  <2>2. Rank(state') = Rank(state)
    BY <1>9
  <2>3. Rank(state) * (n + 2) \in Nat
    BY <1>1, <1>2
  <2>4. Left' < Left
    BY <1>1, <1>5, <1>6, <1>9, <2>1, <2>2, <2>3
  <2> QED
    BY <1>7, <2>4
<1> QED
  BY <1>7, <1>8, <1>9 DEF Turn
-----------------------------------------------------------------------------
(* The turns.                                                              *)

LEMMA SchemeStartTurn ==
    ASSUME PlaceOK, ~Finished, SchemeStart, UNCHANGED arguments
    PROVE  Turn
<1> USE CharRead DEF SchemeStart, Turn, PlaceOK, Unlocated, arguments, Return, Break, Continue, Go
<1>1. CASE Ch \in Letters /\ buffer' = Append(buffer, Ch) /\ Break("SCHEME")
  BY <1>1 DEF Rank, States
<1>2. CASE Continue("NO_SCHEME") /\ UNCHANGED buffer
  BY <1>2 DEF Rank, States
<1>3. CASE Fail
  BY <1>3 DEF Fail
<1> QED
  BY <1>1, <1>2, <1>3

LEMMA SchemeTurn ==
    ASSUME PlaceOK, ~Finished, Scheme, UNCHANGED arguments
    PROVE  Turn
<1> USE CharRead DEF Turn, PlaceOK, Unlocated, Rank, States, arguments, Return, Break, Continue, Go, Scheme
<1>1. CASE buffer' = Append(buffer, Ch) /\ Break("SCHEME") /\ Ch \in Char /\ Ch # Undefined
  BY <1>1
<1>2. CASE EndsScheme /\ SchemeEnds
  <2>1. buffer' = <<>>
    BY <1>2 DEF SchemeEnds
  <2>2. CASE Return
    BY <2>1, <2>2
  <2>3. CASE ~hasStateOverride
    <3>1. Ch = ":" /\ Ch # Undefined
      BY <1>2, <2>3 DEF EndsScheme, Undefined
    <3>2. \/ Break("FILE") \/ Break("SPECIAL_RELATIVE_OR_AUTHORITY")
          \/ Break("SPECIAL_AUTHORITY_SLASHES") \/ Break("CANNOT_BE_BASE")
          \/ At(index + 1) # Undefined /\ Go("PATH_OR_AUTHORITY", index + 2)
      BY <1>2, <2>3 DEF SchemeEnds, Undefined
    <3> QED
      BY <2>1, <3>1, <3>2
  <2> QED
    BY <1>2, <2>2, <2>3 DEF SchemeEnds
<1>3. CASE buffer' = <<>> /\ Go("NO_SCHEME", 0)
  BY <1>3
<1>4. CASE Fail
  BY <1>4 DEF Fail
<1>5. Ch \in Letters \cup DigitsOf(10) \cup {"+", "-", "."} => Ch # Undefined
  BY UndefinedIsNoChar DEF Undefined
<1> QED
  BY <1>1, <1>2, <1>3, <1>4, <1>5

LEMMA NoSchemeTurn ==
    ASSUME PlaceOK, ~Finished, NoScheme, UNCHANGED arguments
    PROVE  Turn
<1>1. CASE Fail
  BY CharRead, <1>1 DEF Fail, Return, Turn, PlaceOK, Unlocated, arguments
<1> USE CharRead DEF Turn, PlaceOK, Unlocated, Rank, States, arguments, Return, Break, Continue, Go, NoScheme, Become
<1>2. CASE Ch = "#" /\ Break("FRAGMENT") /\ UNCHANGED buffer
  BY <1>2 DEF Undefined
<1>3. CASE (Continue("RELATIVE") \/ Continue("FILE")) /\ UNCHANGED buffer
  BY <1>3
<1> QED
  BY <1>1, <1>2, <1>3

LEMMA SpecialRelativeOrAuthorityTurn ==
    ASSUME PlaceOK, ~Finished, SpecialRelativeOrAuthority, UNCHANGED arguments
    PROVE  Turn
<1>1. state = "SPECIAL_RELATIVE_OR_AUTHORITY" /\ UNCHANGED buffer
  BY DEF SpecialRelativeOrAuthority
<1>2. \/ At(index + 1) # Undefined /\ Go("SPECIAL_AUTHORITY_IGNORE_SLASHES", index + 2)
      \/ Continue("RELATIVE")
  BY DEF SpecialRelativeOrAuthority, IsSlash, Undefined
<1> QED
  BY <1>1, <1>2, CharRead DEF Turn, PlaceOK, Unlocated, Rank, States, arguments, Break, Continue,
                            Go

LEMMA PathOrAuthorityTurn ==
    ASSUME PlaceOK, ~Finished, PathOrAuthority, UNCHANGED arguments
    PROVE  Turn
<1>1. state = "PATH_OR_AUTHORITY" /\ UNCHANGED buffer
  BY DEF PathOrAuthority
<1>2. (Ch # Undefined /\ Break("AUTHORITY")) \/ Break("PATH")
  BY DEF PathOrAuthority, IsSlash, Undefined
<1> QED
  BY <1>1, <1>2, CharRead DEF Turn, PlaceOK, Unlocated, Rank, States, arguments, Break, Continue,
                            Go

LEMMA RelativeTurn ==
    ASSUME PlaceOK, ~Finished, Relative, UNCHANGED arguments
    PROVE  Turn
<1>1. state = "RELATIVE" /\ UNCHANGED buffer
  BY DEF Relative, Become
<1>2. \/ Break("RELATIVE") \/ Break("RELATIVE_SLASH") \/ Break("QUERY") \/ Break("FRAGMENT")
      \/ Continue("PATH")
  BY DEF Relative, Become, IsSlash, Undefined
<1> QED
  BY <1>1, <1>2, CharRead DEF Turn, PlaceOK, Unlocated, Rank, States, arguments, Break, Continue,
                            Go

LEMMA RelativeSlashTurn ==
    ASSUME PlaceOK, ~Finished, RelativeSlash, UNCHANGED arguments
    PROVE  Turn
<1>1. state = "RELATIVE_SLASH" /\ UNCHANGED buffer
  BY DEF RelativeSlash, Become
<1>2. \/ Ch # Undefined /\ (Break("SPECIAL_AUTHORITY_IGNORE_SLASHES") \/ Break("AUTHORITY"))
      \/ Continue("PATH")
  BY DEF RelativeSlash, Become, IsSlash, Undefined
<1> QED
  BY <1>1, <1>2, CharRead DEF Turn, PlaceOK, Unlocated, Rank, States, arguments, Break, Continue,
                            Go

LEMMA SpecialAuthoritySlashesTurn ==
    ASSUME PlaceOK, ~Finished, SpecialAuthoritySlashes, UNCHANGED arguments
    PROVE  Turn
<1>1. state = "SPECIAL_AUTHORITY_SLASHES" /\ UNCHANGED buffer
  BY DEF SpecialAuthoritySlashes
<1>2. \/ At(index + 1) # Undefined /\ Go("SPECIAL_AUTHORITY_IGNORE_SLASHES", index + 2)
      \/ Continue("SPECIAL_AUTHORITY_IGNORE_SLASHES")
  BY DEF SpecialAuthoritySlashes, Undefined, Continue, Go
<1> QED
  BY <1>1, <1>2, CharRead DEF Turn, PlaceOK, Unlocated, Rank, States, arguments, Break, Continue,
                            Go

LEMMA SpecialAuthorityIgnoreSlashesTurn ==
    ASSUME PlaceOK, ~Finished, SpecialAuthorityIgnoreSlashes, UNCHANGED arguments
    PROVE  Turn
<1>1. state = "SPECIAL_AUTHORITY_IGNORE_SLASHES" /\ UNCHANGED buffer
  BY DEF SpecialAuthorityIgnoreSlashes
<1>2. Break("SPECIAL_AUTHORITY_IGNORE_SLASHES") \/ Continue("AUTHORITY")
  BY DEF SpecialAuthorityIgnoreSlashes, IsSlash, Undefined
<1> QED
  BY <1>1, <1>2, CharRead DEF Turn, PlaceOK, Unlocated, Rank, States, arguments, Break, Continue,
                            Go

LEMMA FileTurn ==
    ASSUME PlaceOK, ~Finished, File, UNCHANGED arguments
    PROVE  Turn
<1>1. state = "FILE" /\ UNCHANGED buffer
  BY DEF File, Become
<1>2. \/ Break("FILE") \/ Break("FILE_SLASH") \/ Break("QUERY") \/ Break("FRAGMENT")
      \/ Continue("PATH")
  BY DEF File, Become, IsSlash, Undefined
<1> QED
  BY <1>1, <1>2, CharRead DEF Turn, PlaceOK, Unlocated, Rank, States, arguments, Break, Continue,
                            Go

LEMMA FileSlashTurn ==
    ASSUME PlaceOK, ~Finished, FileSlash, UNCHANGED arguments
    PROVE  Turn
<1>1. state = "FILE_SLASH" /\ UNCHANGED buffer
  BY DEF FileSlash, Become
<1>2. Break("FILE_HOST") \/ Continue("PATH")
  BY DEF FileSlash, Become, IsSlash, Undefined
<1> QED
  BY <1>1, <1>2, CharRead DEF Turn, PlaceOK, Unlocated, Rank, States, arguments, Break, Continue,
                            Go

LEMMA PathStartTurn ==
    ASSUME PlaceOK, ~Finished, PathStart, UNCHANGED arguments
    PROVE  Turn
<1>1. state = "PATH_START" /\ UNCHANGED buffer
  BY DEF PathStart, Become
<1>2. \/ Break("PATH_START") \/ Break("PATH") \/ Continue("PATH")
      \/ Break("QUERY") \/ Break("FRAGMENT")
  BY DEF PathStart, Become, IsSlash, Undefined
<1> QED
  BY <1>1, <1>2, CharRead DEF Turn, PlaceOK, Unlocated, Rank, States, arguments, Break, Continue,
                            Go

LEMMA CannotBeBaseTurn ==
    ASSUME PlaceOK, ~Finished, CannotBeBase, UNCHANGED arguments
    PROVE  Turn
<1>1. state = "CANNOT_BE_BASE" /\ UNCHANGED buffer
  BY DEF CannotBeBase, Become
<1>2. Break("CANNOT_BE_BASE") \/ Break("QUERY") \/ Break("FRAGMENT")
  BY DEF CannotBeBase, Become, IsSlash, Undefined
<1> QED
  BY <1>1, <1>2, CharRead DEF Turn, PlaceOK, Unlocated, Rank, States, arguments, Break, Continue,
                            Go

LEMMA AuthorityTurn ==
    ASSUME PlaceOK, ~Finished, Authority, UNCHANGED arguments
    PROVE  Turn
<1>1. CASE Ch # Undefined /\ buffer' = <<>> /\ Break("AUTHORITY")
  BY <1>1, CharRead DEF Turn, PlaceOK, Unlocated, Rank, States, arguments, Break, Continue, Go, Authority
<1>2. CASE Fail
  BY <1>2, CharRead DEF Turn, PlaceOK, Unlocated, Rank, States, arguments, Break, Continue, Go, Fail, Return
<1>3. CASE buffer' = <<>> /\ Go("HOST", index - Len(buffer))
  BY <1>3, CharRead DEF Turn, PlaceOK, Unlocated, Rank, States, arguments, Break, Continue, Go, Authority
<1>4. CASE Ch # Undefined /\ buffer' = Append(buffer, Ch) /\ Break("AUTHORITY")
  <2>1. Append(buffer, Ch) \in Seq(Char) /\ Len(Append(buffer, Ch)) = Len(buffer) + 1
    BY <1>4, CharRead, AppendProperties DEF PlaceOK
  <2> QED
    BY <1>4, <2>1, CharRead DEF Turn, PlaceOK, Unlocated, Rank, States, arguments, Break, Continue, Go, Authority
<1> QED
  BY <1>1, <1>2, <1>3, <1>4 DEF Authority, EndsAuthority, Undefined

LEMMA HostTurn ==
    ASSUME PlaceOK, ~Finished, Host, UNCHANGED arguments
    PROVE  Turn
<1>1. state \in {"HOST", "HOSTNAME"}
  BY DEF Host
<1>2. CASE Fail
  BY <1>2, CharRead DEF Turn, PlaceOK, Unlocated, Rank, States, arguments, Break, Continue, Go, Fail, Return
<1>3. ASSUME NEW r, \/ Ch # Undefined /\ HostRead("PORT", index + 1, r)
                   \/ HostRead("PATH_START", index, r),
              r \in BOOLEAN
      PROVE  Turn
  <2>1. CASE Fail
    BY <1>2, <2>1
  <2>2. CASE buffer' = <<>> /\ returned' = r /\ Ch # Undefined /\ state' = "PORT" /\ index' = index + 1
    BY <1>1, <1>3, <2>2, CharRead DEF Turn, PlaceOK, Unlocated, Rank, States, arguments
  <2>3. CASE buffer' = <<>> /\ returned' = r /\ state' = "PATH_START" /\ index' = index
    BY <1>1, <1>3, <2>3, CharRead DEF Turn, PlaceOK, Unlocated, Rank, States, arguments
  <2> QED
    BY <1>3, <2>1, <2>2, <2>3 DEF HostRead
<1>4. CASE Ch # Undefined /\ buffer' = Append(buffer, Ch) /\ Break(state)
  BY <1>1, <1>4, CharRead DEF Turn, PlaceOK, Unlocated, Rank, States, arguments, Break, Continue, Go
<1>5. hasStateOverride \in BOOLEAN /\ (stateOverride = "HOSTNAME") \in BOOLEAN
  BY DEF hasStateOverride
<1> QED
  BY <1>2, <1>3, <1>4, <1>5 DEF Host, EndsAuthority, Undefined

LEMMA PortTurn ==
    ASSUME PlaceOK, ~Finished, Port, UNCHANGED arguments
    PROVE  Turn
<1>1. state = "PORT"
  BY DEF Port
<1>2. \/ Ch # Undefined /\ buffer' = Append(buffer, Ch) /\ Break("PORT")
      \/ Return /\ UNCHANGED buffer
      \/ Continue("PATH_START") /\ (buffer' = <<>> \/ UNCHANGED buffer)
  BY CharRead DEF Port
<1>3. buffer' \in Seq(Char)
  BY <1>2, CharRead, BufferTyped
<1>4. CASE Ch # Undefined /\ Break("PORT")
  BY <1>1, <1>3, <1>4, CharRead DEF Turn, PlaceOK, Unlocated, Rank, States, arguments, Break, Continue, Go
<1>5. CASE Return
  BY <1>1, <1>3, <1>5, CharRead DEF Turn, PlaceOK, Unlocated, arguments, Return
<1>6. CASE Continue("PATH_START")
  BY <1>1, <1>3, <1>6, CharRead DEF Turn, PlaceOK, Unlocated, Rank, States, arguments, Break, Continue, Go
<1> QED
  BY <1>2, <1>4, <1>5, <1>6

LEMMA FileHostTurn ==
    ASSUME PlaceOK, ~Finished, FileHost, UNCHANGED arguments
    PROVE  Turn
<1>1. state = "FILE_HOST"
  BY DEF FileHost
<1>2. \/ Ch # Undefined /\ buffer' = Append(buffer, Ch) /\ Break("FILE_HOST")
      \/ Return /\ UNCHANGED buffer
      \/ Continue("PATH") /\ UNCHANGED buffer
      \/ Continue("PATH_START") /\ buffer' = <<>>
  BY DEF FileHost, EndsAuthority, Undefined
<1>3. buffer' \in Seq(Char)
  BY <1>2, CharRead, BufferTyped
<1>4. CASE Ch # Undefined /\ Break("FILE_HOST")
  BY <1>1, <1>3, <1>4, CharRead DEF Turn, PlaceOK, Unlocated, Rank, States, arguments, Break, Continue, Go
<1>5. CASE Return
  BY <1>1, <1>3, <1>5, CharRead DEF Turn, PlaceOK, Unlocated, arguments, Return
<1>6. CASE Continue("PATH")
  BY <1>1, <1>3, <1>6, CharRead DEF Turn, PlaceOK, Unlocated, Rank, States, arguments, Break, Continue, Go
<1>7. CASE Continue("PATH_START")
  BY <1>1, <1>3, <1>7, CharRead DEF Turn, PlaceOK, Unlocated, Rank, States, arguments, Break, Continue, Go
<1> QED
  BY <1>2, <1>4, <1>5, <1>6, <1>7

LEMMA EscapedIsChar ==
    ASSUME NEW c \in Char, NEW encodeSet
    PROVE  Escaped(c, encodeSet) \in Char
BY DEF Escaped, Char, Punctuation

LEMMA PathTurn ==
    ASSUME PlaceOK, ~Finished, Path, UNCHANGED arguments
    PROVE  Turn
<1>1. state = "PATH"
  BY DEF Path
<1>2. \/ /\ Ch # Undefined /\ Break("PATH")
         /\ buffer' = Append(buffer, Escaped(Ch, PATH_ENCODE_SET))
      \/ buffer' = <<>> /\ (Break("PATH") \/ Break("QUERY") \/ Break("FRAGMENT"))
  BY DEF Path, EndsSegment
<1>3. Ch # Undefined => Escaped(Ch, PATH_ENCODE_SET) \in Char
  BY CharRead, EscapedIsChar
<1>4. buffer' \in Seq(Char)
  BY <1>2, <1>3, BufferTyped
<1> QED
  BY <1>1, <1>2, <1>4, CharRead DEF Turn, PlaceOK, Unlocated, Rank, States, arguments, Break, Continue, Go

LEMMA QueryTurn ==
    ASSUME PlaceOK, ~Finished, Query, UNCHANGED arguments
    PROVE  Turn
<1>1. state = "QUERY"
  BY DEF Query
<1>2. \/ /\ Ch # Undefined /\ Break("QUERY")
         /\ buffer' = Append(buffer, Escaped(Ch, QUERY_ENCODE_SET))
      \/ buffer' = <<>> /\ (Break("QUERY") \/ Break("FRAGMENT"))
  BY DEF Query, EndsSegment
<1>3. Ch # Undefined => Escaped(Ch, QUERY_ENCODE_SET) \in Char
  BY CharRead, EscapedIsChar
<1>4. buffer' \in Seq(Char)
  BY <1>2, <1>3, BufferTyped
<1> QED
  BY <1>1, <1>2, <1>4, CharRead DEF Turn, PlaceOK, Unlocated, Rank, States, arguments, Break, Continue, Go

LEMMA FragmentTurn ==
    ASSUME PlaceOK, ~Finished, Fragment, UNCHANGED arguments
    PROVE  Turn
<1>1. state = "FRAGMENT"
  BY DEF Fragment
<1>2. \/ /\ Ch # Undefined /\ Break("FRAGMENT")
         /\ buffer' = Append(buffer, Escaped(Ch, FRAGMENT_ENCODE_SET))
      \/ UNCHANGED buffer /\ Break("FRAGMENT")
  BY DEF Fragment, EndsSegment
<1>3. Ch # Undefined => Escaped(Ch, FRAGMENT_ENCODE_SET) \in Char
  BY CharRead, EscapedIsChar
<1>4. buffer' \in Seq(Char)
  BY <1>2, <1>3, BufferTyped
<1> QED
  BY <1>1, <1>2, <1>4, CharRead DEF Turn, PlaceOK, Unlocated, Rank, States, arguments, Break, Continue, Go

-----------------------------------------------------------------------------
(* The records that the turns leave.                                       *)

LEMMA FieldsAre ==
    Fields = {"scheme", "username", "password", "host", "port", "path", "query", "fragment",
              "special", "cannotBeBase", "failed", "isDefaultSchemePort"}
BY DEF Fields, BlankURL

LEMMA PortFields ==
    ASSUME DOMAIN url = Fields, Port
    PROVE  DOMAIN url' = Fields
<1> DEFINE port == parseInt(buffer, 10)
           normal == normalizePort(url.scheme, port)
           toNone == [url EXCEPT !.port = None]
           toFailed == [url EXCEPT !.failed = TRUE]
           toPort == [url EXCEPT !.port = normal, !.isDefaultSchemePort = @ \/ normal = None]
<1>1. DOMAIN toNone = Fields /\ DOMAIN toFailed = Fields /\ DOMAIN toPort = Fields
  OBVIOUS
<1>2. url' \in {url, toNone, toFailed, toPort}
  BY DEF Port
<1> HIDE DEF toNone, toFailed, toPort
<1> QED
  BY <1>1, <1>2

LEMMA FieldsKept ==
    ASSUME DOMAIN url = Fields, ParserStep
    PROVE  DOMAIN url' = Fields
<1>1. CASE SchemeStart \/ Scheme \/ NoScheme
  BY <1>1 DEF SchemeStart, Scheme, SchemeEnds, NoScheme, Fail, Become
<1>2. CASE SpecialRelativeOrAuthority \/ PathOrAuthority \/ Relative \/ RelativeSlash
  BY <1>2 DEF SpecialRelativeOrAuthority, PathOrAuthority, Relative, RelativeSlash, Become,
              WithAuthorityOf
<1>3. CASE SpecialAuthoritySlashes \/ SpecialAuthorityIgnoreSlashes
  BY <1>3 DEF SpecialAuthoritySlashes, SpecialAuthorityIgnoreSlashes
<1>4. CASE Authority
  BY <1>4 DEF Authority, Fail
<1>5. CASE Host
  BY <1>5 DEF Host, HostRead, Fail
<1>6. CASE Port
  BY <1>6, PortFields
<1>7. CASE File
  BY <1>7 DEF File, Become
<1>8. CASE FileSlash
  BY <1>8 DEF FileSlash, Become
<1>9. CASE FileHost
  BY <1>9 DEF FileHost
<1>10. CASE PathStart \/ CannotBeBase
  BY <1>10 DEF PathStart, CannotBeBase, Become
<1>11. CASE Path
  BY <1>11 DEF Path
<1>12. CASE Query \/ Fragment
  BY <1>12 DEF Query, Fragment
<1> QED
  BY <1>1, <1>2, <1>3, <1>4, <1>5, <1>6, <1>7, <1>8, <1>9, <1>10, <1>11, <1>12 DEF ParserStep

LEMMA BlankIsShaped == Shaped(BlankURL) /\ ~isSpecial(BlankURL.scheme) /\ ~BlankURL.special
BY EmptySeq, SchemesAssumption DEF Shaped, Fields, BlankURL, isSpecial

LEMMA FailKeeps ==
    ASSUME RecordOK, Fail
    PROVE  Kept
BY FieldsAre DEF Kept, RecordOK, Shaped, Fail, Return

\* After the path there is nothing left to be made whole.
LEMMA AfterPathKept ==
    ASSUME state' \in {"QUERY", "FRAGMENT"}, Shaped(url'), Whole(url')
    PROVE  RecordOK'
BY DEF RecordOK, BeforeScheme, BeforeAuthority, AgainstBase, InAuthority, InFile, InPath, AfterPath,
       LastStates, Unlocated, Whole

LEMMA InPathKept ==
    ASSUME state' \in {"PATH_START", "PATH"}, Shaped(url'), url'.special <=> isSpecial(url'.scheme),
           Located',
           state' = "PATH_START" /\ url'.special => index' <= Len(input'),
           state' = "PATH" /\ url'.special => index' <= Len(input') \/ url'.path # <<>>
    PROVE  RecordOK'
BY DEF RecordOK, BeforeScheme, BeforeAuthority, AgainstBase, InAuthority, InFile, InPath, AfterPath,
       LastStates, Unlocated

LEMMA UnlocatedKept ==
    ASSUME state' \in Unlocated, Shaped(url'), url'.special <=> isSpecial(url'.scheme),
           Bare', url'.scheme # FileScheme, ~atflag', index' <= Len(input'),
           state' = "PATH_OR_AUTHORITY" => ~url'.special,
           state' \in {"SPECIAL_RELATIVE_OR_AUTHORITY", "RELATIVE_SLASH"} =>
               /\ base' # None /\ ~base'.cannotBeBase /\ base'.scheme # FileScheme
               /\ url'.scheme = base'.scheme
    PROVE  RecordOK'
BY DEF RecordOK, BeforeScheme, BeforeAuthority, AgainstBase, InAuthority, InFile, InPath, AfterPath,
       LastStates, Unlocated

LEMMA AuthorityKept ==
    ASSUME state' = "AUTHORITY", buffer' = <<>>, Shaped(url'), url'.special <=> isSpecial(url'.scheme),
           Bare', url'.scheme # FileScheme, index' <= Len(input')
    PROVE  RecordOK'
BY DEF RecordOK, BeforeScheme, BeforeAuthority, AgainstBase, InAuthority, InFile, InPath, AfterPath,
       LastStates, Unlocated, Bare, NoCredentials, HasCredentials

LEMMA RelativeKept ==
    ASSUME state' = "RELATIVE", Shaped(url'), url'.special <=> isSpecial(url'.scheme), ~atflag',
           base' # None, ~base'.cannotBeBase, base'.scheme # FileScheme,
           IF index' <= Len(input') THEN Bare' ELSE Whole(url')
    PROVE  RecordOK'
BY DEF RecordOK, BeforeScheme, BeforeAuthority, AgainstBase, InAuthority, InFile, InPath, AfterPath,
       LastStates, Unlocated

LEMMA FileKept ==
    ASSUME state' \in {"FILE", "FILE_SLASH", "FILE_HOST"}, Shaped(url'),
           url'.special <=> isSpecial(url'.scheme), url'.scheme = FileScheme,
           state' # "FILE" => index' <= Len(input'),
           IF index' <= Len(input') THEN Bare' ELSE Whole(url')
    PROVE  RecordOK'
BY DEF RecordOK, BeforeScheme, BeforeAuthority, AgainstBase, InAuthority, InFile, InPath, AfterPath,
       LastStates, Unlocated

\* What is known of url is known of it in the next state if it is the same.
LEMMA UnlocatedRecord ==
    ASSUME PlaceOK, RecordOK, state \in Unlocated, UNCHANGED <<input, flags, url>>, UNCHANGED base
    PROVE  /\ Shaped(url') /\ (url'.special <=> isSpecial(url'.scheme))
           /\ Bare' /\ url'.scheme # FileScheme /\ ~atflag'
           /\ state = "PATH_OR_AUTHORITY" => ~url'.special
           /\ buffer = <<>>
           /\ state \in {"SPECIAL_RELATIVE_OR_AUTHORITY", "RELATIVE_SLASH"} =>
                  /\ base' # None /\ ~base'.cannotBeBase /\ base'.scheme # FileScheme
                  /\ url'.scheme = base'.scheme
BY DEF PlaceOK, RecordOK, BeforeAuthority, AgainstBase, InAuthority, Bare, NoCredentials, flags, Unlocated

LEMMA SchemeStartKept ==
    ASSUME PlaceOK, BaseOK, RecordOK, ~Finished, SchemeStart, UNCHANGED arguments, stateOverride = None
    PROVE  Kept
<1>1. CASE Fail
  BY <1>1, FailKeeps
<1>2. url = BlankURL /\ state = "SCHEME_START" /\ ~atflag /\ ~hasStateOverride
  BY DEF SchemeStart, RecordOK, BeforeScheme, InAuthority, hasStateOverride
<1> USE CharRead, BlankIsShaped
    DEF Break, Continue, Go, flags, arguments, Kept, RecordOK, BeforeScheme, BeforeAuthority, AgainstBase,
        InAuthority, InFile, InPath, AfterPath, LastStates, Unlocated
<1>3. CASE Ch # Undefined /\ Break("SCHEME") /\ UNCHANGED <<flags, url>>
  BY <1>2, <1>3
<1>4. CASE Continue("NO_SCHEME") /\ UNCHANGED <<flags, url>>
  BY <1>2, <1>4
<1> QED
  BY <1>1, <1>2, <1>3, <1>4 DEF SchemeStart

LEMMA SchemeKept ==
    ASSUME PlaceOK, BaseOK, RecordOK, ~Finished, Scheme, UNCHANGED arguments, stateOverride = None
    PROVE  Kept
<1>1. CASE Fail
  BY <1>1, FailKeeps
<1>2. url = BlankURL /\ state = "SCHEME" /\ ~atflag /\ ~hasStateOverride
  BY DEF Scheme, RecordOK, BeforeScheme, InAuthority, hasStateOverride
<1> DEFINE scheme == Append(buffer, ":")
           special == isSpecial(scheme)
           named == [url EXCEPT !.scheme = scheme, !.special = special,
                                !.port = normalizePort(scheme, url.port)]
<1>3. /\ DOMAIN named = Fields /\ named.path = <<>> /\ named.host = NoHost /\ named.port = None
      /\ named.username = <<>> /\ named.password = <<>> /\ ~named.cannotBeBase
      /\ named.scheme = scheme /\ named.special = special
  BY <1>2 DEF BlankURL, Fields, normalizePort
<1>4. Shaped(named)
  BY <1>3, EmptySeq DEF Shaped
<1>5. special <=> isSpecial(scheme)
  OBVIOUS
<1>6. SchemeEnds /\ EndsScheme =>
          /\ Ch # Undefined /\ UNCHANGED flags
          /\ \/ scheme = FileScheme /\ Break("FILE") /\ url' = named
             \/ /\ scheme # FileScheme /\ special /\ hasBase /\ base.scheme = scheme
                /\ Break("SPECIAL_RELATIVE_OR_AUTHORITY") /\ url' = named
             \/ /\ scheme # FileScheme /\ special
                /\ Break("SPECIAL_AUTHORITY_SLASHES") /\ url' = named
             \/ /\ ~special /\ At(index + 1) = "/"
                /\ Go("PATH_OR_AUTHORITY", index + 2) /\ url' = named
             \/ /\ ~special /\ Break("CANNOT_BE_BASE")
                /\ url' = [named EXCEPT !.cannotBeBase = TRUE, !.path = << <<>> >>]
  BY <1>2 DEF SchemeEnds, EndsScheme, Undefined
<1>7. base # None /\ base.scheme = scheme /\ special => ~base.cannotBeBase
  BY DEF BaseOK, Whole
<1>8. isSpecial(FileScheme)
  BY SchemesAssumption DEF isSpecial
<1>9. << <<>> >> \in Seq(Segments)
  BY EmptySeq DEF Segments
<1> HIDE DEF named, special, scheme
<1>10. CASE SchemeEnds /\ EndsScheme
  <2>0. index + 1 <= Len(input) /\ ~atflag' /\ UNCHANGED <<input, base>> /\ ~returned
    BY <1>2, <1>6, <1>10, CharRead DEF flags, arguments
  <2> USE <1>3, <1>4, <1>5, <2>0 DEF Break, Continue, Go, Kept
  <2>1. CASE scheme = FileScheme /\ Break("FILE") /\ url' = named
    BY <2>1, <1>8
    DEF Bare, NoCredentials, HasCredentials, RecordOK, BeforeScheme, BeforeAuthority,
        AgainstBase, InAuthority, InFile, InPath, AfterPath, LastStates, Unlocated
  <2>2. CASE /\ scheme # FileScheme /\ special /\ hasBase /\ base.scheme = scheme
             /\ Break("SPECIAL_RELATIVE_OR_AUTHORITY") /\ url' = named
    <3>1. Bare' /\ url'.scheme = scheme
      BY <2>2 DEF Bare, NoCredentials, HasCredentials
    <3>2. state' \in Unlocated /\ state' # "PATH_OR_AUTHORITY"
      BY <2>2 DEF Unlocated
    <3> QED
      BY <2>2, <3>1, <3>2, <1>7, UnlocatedKept DEF hasBase
  <2>3. CASE /\ scheme # FileScheme /\ special
             /\ Break("SPECIAL_AUTHORITY_SLASHES") /\ url' = named
    <3>1. Bare' /\ url'.scheme = scheme
      BY <2>3 DEF Bare, NoCredentials, HasCredentials
    <3> QED
      BY <2>3, <3>1, UnlocatedKept DEF Unlocated
  <2>4. CASE /\ ~special /\ At(index + 1) = "/"
             /\ Go("PATH_OR_AUTHORITY", index + 2) /\ url' = named
    <3>1. Bare' /\ url'.scheme = scheme
      BY <2>4 DEF Bare, NoCredentials, HasCredentials
    <3> QED
      BY <2>4, <3>1, <1>8, CharRead, UnlocatedKept DEF Unlocated, Undefined
  <2>5. CASE /\ ~special /\ Break("CANNOT_BE_BASE")
             /\ url' = [named EXCEPT !.cannotBeBase = TRUE, !.path = << <<>> >>]
    <3>1. /\ DOMAIN url' = Fields /\ url'.path = << <<>> >> /\ url'.host = NoHost
          /\ url'.port = None /\ url'.username = <<>> /\ url'.password = <<>>
          /\ url'.cannotBeBase /\ url'.scheme = scheme /\ url'.special = special
      BY <2>5, FieldsAre
    <3> QED
      BY <2>5, <3>1, <1>9
      DEF Whole, HasCredentials, Shaped, RecordOK, BeforeScheme, BeforeAuthority, AgainstBase,
          InAuthority, InFile, InPath, AfterPath, LastStates, Unlocated
  <2> QED
    BY <1>6, <1>10, <2>1, <2>2, <2>3, <2>4, <2>5
<1> USE CharRead, BlankIsShaped
    DEF Break, Continue, Go, flags, arguments, Kept, RecordOK, BeforeScheme, BeforeAuthority, AgainstBase,
        InAuthority, InFile, InPath, AfterPath, LastStates, Unlocated
<1>11. CASE Ch # Undefined /\ Break("SCHEME") /\ UNCHANGED <<flags, url>>
  BY <1>2, <1>11
<1>12. CASE Go("NO_SCHEME", 0) /\ UNCHANGED <<flags, url>>
  BY <1>2, <1>12
<1>13. Ch \in Letters \cup DigitsOf(10) \cup {"+", "-", "."} => Ch # Undefined
  BY UndefinedIsNoChar DEF Undefined
<1> QED
  BY <1>1, <1>2, <1>10, <1>11, <1>12, <1>13 DEF Scheme

LEMMA NoSchemeKept ==
    ASSUME PlaceOK, BaseOK, RecordOK, ~Finished, NoScheme, UNCHANGED arguments, stateOverride = None
    PROVE  Kept
<1>1. CASE Fail
  BY <1>1, FailKeeps
<1>2. url = BlankURL /\ state = "NO_SCHEME" /\ ~atflag
  BY DEF NoScheme, RecordOK, BeforeScheme, InAuthority
<1>3. index <= Len(input) /\ ~returned /\ UNCHANGED <<input, base>>
  BY CharRead DEF arguments
<1>4. CASE /\ hasBase /\ base.cannotBeBase
           /\ Become([url EXCEPT !.scheme = base.scheme, !.path = base.path,
                                 !.query = base.query, !.fragment = <<>>,
                                 !.cannotBeBase = TRUE,
                                 !.special = isSpecial(base.scheme)])
           /\ Break("FRAGMENT")
  <2>1. /\ DOMAIN url' = Fields /\ url'.path = base.path /\ url'.scheme = base.scheme
        /\ url'.host = NoHost /\ url'.port = None /\ url'.username = <<>> /\ url'.password = <<>>
        /\ url'.cannotBeBase /\ url'.special = isSpecial(base.scheme)
    BY <1>2, <1>4 DEF Become, BlankURL, Fields
  <2>2. Shaped(base) /\ ~isSpecial(base.scheme) /\ Len(base.path) = 1
    BY <1>4 DEF BaseOK, Whole, hasBase
  <2>3. Shaped(url') /\ Whole(url')
    BY <2>1, <2>2 DEF Shaped, Whole, HasCredentials
  <2> QED
    BY <1>3, <1>4, <2>3, AfterPathKept DEF Kept, Break, Go
<1>5. Bare
  BY <1>2 DEF Bare, NoCredentials, HasCredentials, BlankURL
<1>6. CASE /\ hasBase /\ ~base.cannotBeBase /\ base.scheme # FileScheme
           /\ Continue("RELATIVE") /\ UNCHANGED <<flags, url>>
  <2>1. Bare' /\ ~atflag' /\ Shaped(url') /\ (url'.special <=> isSpecial(url'.scheme))
    BY <1>2, <1>5, <1>6, BlankIsShaped DEF Bare, NoCredentials, flags
  <2> QED
    BY <1>3, <1>6, <2>1, RelativeKept DEF Kept, Continue, Go, hasBase
<1>7. CASE /\ Become([url EXCEPT !.scheme = FileScheme, !.special = TRUE])
           /\ Continue("FILE")
  <2>1. /\ DOMAIN url' = Fields /\ url'.path = <<>> /\ url'.scheme = FileScheme
        /\ url'.host = NoHost /\ url'.port = None /\ url'.username = <<>> /\ url'.password = <<>>
        /\ ~url'.cannotBeBase /\ url'.special
    BY <1>2, <1>7 DEF Become, BlankURL, Fields
  <2>2. isSpecial(FileScheme)
    BY SchemesAssumption DEF isSpecial
  <2>3. Bare' /\ Shaped(url')
    BY <2>1, EmptySeq DEF Bare, NoCredentials, HasCredentials, Shaped
  <2> QED
    BY <1>3, <1>7, <2>1, <2>2, <2>3, FileKept DEF Kept, Continue, Go
<1> QED
  BY <1>1, <1>4, <1>6, <1>7 DEF NoScheme

LEMMA SpecialRelativeOrAuthorityKept ==
    ASSUME PlaceOK, BaseOK, RecordOK, ~Finished, SpecialRelativeOrAuthority, UNCHANGED arguments,
           stateOverride = None
    PROVE  Kept
<1>1. /\ state = "SPECIAL_RELATIVE_OR_AUTHORITY" /\ state \in Unlocated
      /\ UNCHANGED <<input, base, flags, url>> /\ ~returned /\ index <= Len(input)
  BY CharRead DEF SpecialRelativeOrAuthority, arguments, Unlocated
<1>2. CASE At(index + 1) # Undefined /\ Go("SPECIAL_AUTHORITY_IGNORE_SLASHES", index + 2)
  BY <1>1, <1>2, CharRead, UnlocatedRecord, UnlocatedKept DEF Kept, Go, Unlocated
<1>3. CASE Continue("RELATIVE")
  BY <1>1, <1>3, UnlocatedRecord, RelativeKept DEF Kept, Continue, Go
<1> QED
  BY <1>2, <1>3 DEF SpecialRelativeOrAuthority, Undefined

LEMMA PathOrAuthorityKept ==
    ASSUME PlaceOK, BaseOK, RecordOK, ~Finished, PathOrAuthority, UNCHANGED arguments,
           stateOverride = None
    PROVE  Kept
<1>1. /\ state = "PATH_OR_AUTHORITY" /\ state \in Unlocated
      /\ UNCHANGED <<input, base, flags, url, buffer>> /\ ~returned /\ index <= Len(input)
  BY CharRead DEF PathOrAuthority, arguments, Unlocated
<1>2. CASE Ch # Undefined /\ Break("AUTHORITY")
  BY <1>1, <1>2, CharRead, UnlocatedRecord, AuthorityKept DEF Kept, Break, Go
<1>3. CASE Break("PATH")
  <2>1. Located' /\ ~url'.special
    BY <1>1, UnlocatedRecord DEF Located, Bare, NoCredentials
  <2> QED
    BY <1>1, <1>3, <2>1, UnlocatedRecord, InPathKept DEF Kept, Break, Go
<1> QED
  BY <1>2, <1>3 DEF PathOrAuthority, Undefined

LEMMA SpecialAuthoritySlashesKept ==
    ASSUME PlaceOK, BaseOK, RecordOK, ~Finished, SpecialAuthoritySlashes, UNCHANGED arguments,
           stateOverride = None
    PROVE  Kept
<1>1. /\ state = "SPECIAL_AUTHORITY_SLASHES" /\ state \in Unlocated
      /\ UNCHANGED <<input, base, flags, url>> /\ ~returned /\ index <= Len(input)
  BY CharRead DEF SpecialAuthoritySlashes, arguments, Unlocated
<1>2. /\ state' = "SPECIAL_AUTHORITY_IGNORE_SLASHES" /\ state' \in Unlocated
      /\ index' <= Len(input') /\ UNCHANGED returned
  BY <1>1, CharRead DEF SpecialAuthoritySlashes, Go, Unlocated, Undefined
<1> QED
  BY <1>1, <1>2, UnlocatedRecord, UnlocatedKept DEF Kept

LEMMA SpecialAuthorityIgnoreSlashesKept ==
    ASSUME PlaceOK, BaseOK, RecordOK, ~Finished, SpecialAuthorityIgnoreSlashes, UNCHANGED arguments,
           stateOverride = None
    PROVE  Kept
<1>1. /\ state = "SPECIAL_AUTHORITY_IGNORE_SLASHES" /\ state \in Unlocated
      /\ UNCHANGED <<input, base, flags, url, buffer>> /\ ~returned /\ index <= Len(input)
  BY CharRead DEF SpecialAuthorityIgnoreSlashes, arguments, Unlocated
<1>2. CASE Ch # Undefined /\ Break(state)
  BY <1>1, <1>2, CharRead, UnlocatedRecord, UnlocatedKept DEF Kept, Break, Go
<1>3. CASE Continue("AUTHORITY")
  BY <1>1, <1>3, UnlocatedRecord, AuthorityKept DEF Kept, Continue, Go
<1> QED
  BY <1>2, <1>3 DEF SpecialAuthorityIgnoreSlashes, IsSlash, Undefined

\* A record with the authority of a whole one is located as that one is.
LEMMA LocatedLike ==
    ASSUME NEW record, Whole(record), ~url'.cannotBeBase,
           url'.special <=> record.special, url'.scheme = record.scheme,
           url'.username = record.username, url'.password = record.password,
           url'.host = record.host, url'.port = record.port
    PROVE  Located'
<1>1. url'.special /\ url'.scheme # FileScheme => ~EmptyHost(url'.host)
  BY DEF Whole
<1>2. HasCredentials(url') \/ url'.port # None => ~EmptyHost(url'.host) /\ url'.scheme # FileScheme
  BY DEF Whole, HasCredentials
<1> QED
  BY <1>1, <1>2 DEF Located

\* Query and fragment do not make a URL whole or not.
LEMMA QueryKeeps ==
    ASSUME NEW record, Shaped(record), Whole(record), NEW query, NEW fragment,
           NEW changed \in {[record EXCEPT !.query = query], [record EXCEPT !.fragment = fragment],
                            [record EXCEPT !.query = query, !.fragment = fragment]}
    PROVE  Shaped(changed) /\ Whole(changed)
<1>1. /\ DOMAIN changed = Fields /\ changed.path = record.path /\ changed.host = record.host
      /\ changed.port = record.port /\ changed.username = record.username
      /\ changed.password = record.password /\ changed.cannotBeBase = record.cannotBeBase
      /\ changed.scheme = record.scheme /\ changed.special = record.special
  BY FieldsAre DEF Shaped
<1> QED
  BY <1>1 DEF Shaped, Whole, HasCredentials

LEMMA RelativeSlashKept ==
    ASSUME PlaceOK, BaseOK, RecordOK, ~Finished, RelativeSlash, UNCHANGED arguments, stateOverride = None
    PROVE  Kept
<1>1. /\ state = "RELATIVE_SLASH" /\ state \in Unlocated
      /\ UNCHANGED <<input, base, flags, buffer>> /\ ~returned /\ index <= Len(input)
  BY CharRead DEF RelativeSlash, arguments, Unlocated, Become
<1>2. CASE Ch # Undefined /\ Break("SPECIAL_AUTHORITY_IGNORE_SLASHES") /\ UNCHANGED url
  BY <1>1, <1>2, CharRead, UnlocatedRecord, UnlocatedKept DEF Kept, Break, Go, Unlocated
<1>3. CASE Ch # Undefined /\ Break("AUTHORITY") /\ UNCHANGED url
  BY <1>1, <1>3, CharRead, UnlocatedRecord, AuthorityKept DEF Kept, Break, Go
<1>4. CASE Continue("PATH") /\ Become(WithAuthorityOf(base))
  <2>1. Shaped(url) /\ Bare /\ (url.special <=> isSpecial(url.scheme))
    BY <1>1 DEF RecordOK, BeforeAuthority
  <2>2. base # None /\ ~base.cannotBeBase /\ base.scheme # FileScheme /\ url.scheme = base.scheme
    BY <1>1 DEF RecordOK, AgainstBase
  <2>3. /\ DOMAIN url' = Fields /\ url'.path = url.path /\ url'.scheme = url.scheme
        /\ url'.username = base.username /\ url'.password = base.password
        /\ url'.host = base.host /\ url'.port = base.port
        /\ url'.cannotBeBase = url.cannotBeBase /\ url'.special = url.special
    BY <1>4, <2>1, FieldsAre DEF Become, WithAuthorityOf, Shaped
  <2>4. Shaped(url') /\ (url'.special <=> isSpecial(url'.scheme))
    BY <2>1, <2>3 DEF Shaped
  <2>5. Whole(base)
    BY <2>2 DEF BaseOK
  <2>6. url'.special <=> base.special
    BY <2>1, <2>2, <2>3, <2>5 DEF Whole
  <2>7. Located'
    BY <2>1, <2>2, <2>3, <2>5, <2>6, LocatedLike DEF Bare
  <2> QED
    BY <1>1, <1>4, <2>4, <2>7, InPathKept DEF Kept, Continue, Go
<1> QED
  BY <1>2, <1>3, <1>4 DEF RelativeSlash, Undefined, IsSlash

LEMMA FrontIsSegments ==
    ASSUME NEW path \in Seq(Segments)
    PROVE  SubSeq(path, 1, Len(path) - 1) \in Seq(Segments)
BY SubSeqProperties, LenProperties

LEMMA RelativeTurnKept ==
    ASSUME PlaceOK, BaseOK, RecordOK, ~Finished, Relative, UNCHANGED arguments, stateOverride = None
    PROVE  Kept
<1>1. /\ state = "RELATIVE" /\ UNCHANGED <<input, base, flags, buffer>> /\ ~returned
      /\ index <= Len(input)
  BY CharRead DEF Relative, arguments, Become
<1>2. base # None /\ ~base.cannotBeBase /\ base.scheme # FileScheme /\ Bare /\ Shaped(url) /\ ~atflag
  BY <1>1 DEF RecordOK, AgainstBase, InAuthority
<1>3. Shaped(base) /\ Whole(base)
  BY <1>2 DEF BaseOK
<1> DEFINE named == [url EXCEPT !.scheme = base.scheme, !.special = isSpecial(base.scheme)]
           like == [WithAuthorityOf(base) EXCEPT !.scheme = base.scheme,
                        !.special = isSpecial(base.scheme), !.path = base.path]
           front == SubSeq(base.path, 1, Len(base.path) - 1)
<1>4. /\ DOMAIN named = Fields /\ named.path = <<>> /\ named.host = NoHost /\ named.port = None
      /\ named.username = <<>> /\ named.password = <<>> /\ ~named.cannotBeBase
      /\ named.scheme = base.scheme /\ named.special = isSpecial(base.scheme)
  BY <1>2, FieldsAre DEF Shaped, Bare, NoCredentials, HasCredentials
<1>5. /\ DOMAIN like = Fields /\ like.path = base.path /\ like.host = base.host
      /\ like.port = base.port /\ like.username = base.username /\ like.password = base.password
      /\ ~like.cannotBeBase
      /\ like.scheme = base.scheme /\ like.special = isSpecial(base.scheme)
  BY <1>2, FieldsAre DEF Shaped, Bare, NoCredentials, HasCredentials, WithAuthorityOf
<1>6. CASE /\ Break("RELATIVE_SLASH") /\ Become(named) /\ Ch # Undefined
  <2>1. Shaped(url') /\ Bare' /\ url'.scheme = base.scheme /\ (url'.special <=> isSpecial(url'.scheme))
    BY <1>4, <1>6, EmptySeq DEF Shaped, Bare, NoCredentials, HasCredentials, Become
  <2> QED
    BY <1>1, <1>2, <1>6, <2>1, CharRead, UnlocatedKept DEF Kept, Break, Go, Unlocated, flags
<1>7. Shaped(like) /\ Whole(like)
  BY <1>3, <1>5 DEF Shaped, Whole, HasCredentials
<1>8. CASE Ch = Undefined /\ Break("RELATIVE") /\ Become([like EXCEPT !.query = base.query])
  <2>1. Shaped(url') /\ Whole(url')
    BY <1>7, <1>8, QueryKeeps DEF Become
  <2> QED
    BY <1>1, <1>2, <1>8, <2>1, CharRead, RelativeKept DEF Kept, Break, Go, flags, Whole
<1>9. CASE Break("QUERY") /\ Become([like EXCEPT !.query = <<>>])
  <2>1. Shaped(url') /\ Whole(url')
    BY <1>7, <1>9, QueryKeeps DEF Become
  <2> QED
    BY <1>1, <1>9, <2>1, AfterPathKept DEF Kept, Break, Go
<1>11. CASE Break("FRAGMENT") /\ Become([like EXCEPT !.query = base.query, !.fragment = <<>>])
  <2>1. Shaped(url') /\ Whole(url')
    BY <1>7, <1>11, QueryKeeps DEF Become
  <2> QED
    BY <1>1, <1>11, <2>1, AfterPathKept DEF Kept, Break, Go
<1>10. CASE Continue("PATH") /\ Become([like EXCEPT !.path = front])
  <2>1. /\ DOMAIN url' = Fields /\ url'.path = front /\ url'.host = base.host
        /\ url'.port = base.port /\ url'.username = base.username /\ url'.password = base.password
        /\ ~url'.cannotBeBase
        /\ url'.scheme = base.scheme /\ url'.special = isSpecial(base.scheme)
    BY <1>5, <1>10, FieldsAre DEF Become
  <2>2. front \in Seq(Segments)
    BY <1>3, FrontIsSegments DEF Shaped
  <2>3. Shaped(url') /\ (url'.special <=> isSpecial(url'.scheme))
    BY <2>1, <2>2 DEF Shaped
  <2>4. url'.special <=> base.special
    BY <1>3, <2>1 DEF Whole
  <2>5. Located'
    BY <1>3, <2>1, <2>4, LocatedLike
  <2> QED
    BY <1>1, <1>10, <2>3, <2>5, InPathKept DEF Kept, Continue, Go
<1> QED
  BY <1>6, <1>8, <1>9, <1>10, <1>11, Zenon DEF Relative, specialBackSlash, Undefined

LEMMA AuthorityTurnKept ==
    ASSUME PlaceOK, BaseOK, RecordOK, ~Finished, Authority, UNCHANGED arguments, stateOverride = None
    PROVE  Kept
<1>1. /\ state = "AUTHORITY" /\ UNCHANGED <<input, base>> /\ ~returned /\ index <= Len(input)
      /\ index \in Nat /\ Len(input) \in Nat
  BY CharRead DEF Authority, arguments, PlaceOK
<1>2. /\ Shaped(url) /\ (url.special <=> isSpecial(url.scheme))
      /\ url.host = NoHost /\ url.port = None /\ url.path = <<>>
      /\ ~url.cannotBeBase /\ url.scheme # FileScheme
      /\ HasCredentials(url) => atflag
      /\ buffer # <<>> => ~Ends(At(index - Len(buffer)))
  BY <1>1 DEF RecordOK, InAuthority
<1> USE DEF RecordOK, BeforeScheme, BeforeAuthority, AgainstBase, InAuthority, InFile, InPath, AfterPath,
       LastStates, Unlocated, Kept, Break, Go
<1>3. CASE Fail
  BY <1>3, FailKeeps
<1>4. CASE /\ Ch = "@" /\ Break(state) /\ atflag' = TRUE /\ buffer' = <<>>
           /\ \E name, word : url' = [url EXCEPT !.username = name, !.password = word]
  <2>1. /\ DOMAIN url' = Fields /\ url'.path = url.path /\ url'.host = url.host
        /\ url'.port = url.port /\ url'.cannotBeBase = url.cannotBeBase
        /\ url'.scheme = url.scheme /\ url'.special = url.special
    BY <1>2, <1>4, FieldsAre DEF Shaped
  <2>2. Shaped(url')
    BY <1>2, <2>1 DEF Shaped
  <2>3. buffer' = <<>> /\ atflag' /\ state' = "AUTHORITY" /\ index' <= Len(input') /\ ~returned'
    BY <1>1, <1>4, CharRead DEF Undefined
  <2> QED
    BY <1>2, <2>1, <2>2, <2>3
<1>5. CASE /\ EndsAuthority /\ ~(atflag /\ buffer = <<>>) /\ buffer' = <<>>
           /\ Go("HOST", index - Len(buffer)) /\ UNCHANGED url
  <2>1. index - Len(buffer) <= Len(input)
    BY <1>1 DEF PlaceOK
  <2>2. HasCredentials(url) => ~Ends(At(index - Len(buffer)))
    BY <1>2, <1>5
  <2>3. (HasCredentials(url) => ~Ends(Ch))'
    BY <1>1, <1>5, <2>2 DEF Ends, Ch, At
  <2> QED
    BY <1>1, <1>2, <1>5, <2>1, <2>3
<1>6. CASE /\ Ch # Undefined /\ ~EndsAuthority /\ buffer' = Append(buffer, Ch) /\ Break(state)
           /\ UNCHANGED <<atflag, url>>
  <2>1. Len(buffer') = Len(buffer) + 1 /\ Len(buffer) \in Nat
    BY <1>6, CharRead, AppendProperties DEF PlaceOK
  <2>2. index' - Len(buffer') = index - Len(buffer)
    BY <1>1, <1>6, <2>1
  <2>3. ~Ends(At(index - Len(buffer)))
    <3>1. CASE buffer = <<>>
      <4>1. index - Len(buffer) = index
        BY <1>1, <3>1, EmptySeq
      <4> QED
        BY <1>6, <4>1 DEF Ends, Ch, EndsAuthority, specialBackSlash
    <3>2. CASE buffer # <<>>
      BY <1>2, <3>2
    <3> QED
      BY <3>1, <3>2
  <2>4. ~Ends(At(index - Len(buffer)))'
    BY <1>1, <1>6, <2>2, <2>3 DEF Ends, At
  <2> QED
    BY <1>1, <1>2, <1>6, <2>4, CharRead
<1>7. CASE Ch = "@"
  <2>1. ~EndsAuthority
    BY <1>7 DEF EndsAuthority, specialBackSlash, Undefined
  <2> DEFINE written == IF atflag THEN <<"%", "4", "0">> \o buffer ELSE buffer
             added == Credentials(written, passwordTokenSeenFlag)
  <2>2. /\ Break(state) /\ atflag' = TRUE /\ buffer' = <<>>
        /\ url' = [url EXCEPT
                 !.username = url.username \o EscapedAll(added[1], USERINFO_ENCODE_SET),
                 !.password = url.password \o EscapedAll(added[2], USERINFO_ENCODE_SET)]
    BY <1>2, <1>7, <2>1, FieldsAre DEF Authority, Shaped
  <2> HIDE DEF added
  <2> QED
    BY <1>4, <1>7, <2>2
<1>8. CASE Ch # "@"
  BY <1>3, <1>5, <1>6, <1>8 DEF Authority, EndsAuthority, Undefined
<1> QED
  BY <1>7, <1>8

LEMMA AddressNotEmpty ==
    ASSUME NEW string
    PROVE  parseIPv4(string) # Name(<<>>) \/ string = <<>>
BY DEF parseIPv4, Name, NoHost, IPv4

\* A text that is not empty is parsed to a host that is not, or to none.
LEMMA HostNotEmpty ==
    ASSUME NEW string, string # <<>>, NEW special, parseHost(string, special) # NoHost
    PROVE  ~EmptyHost(parseHost(string, special))
BY AddressNotEmpty DEF parseHost, EmptyHost, Name, IPv6, parseOpaqueHost

LEMMA HostKept ==
    ASSUME PlaceOK, BaseOK, RecordOK, ~Finished, Host, UNCHANGED arguments, stateOverride = None
    PROVE  Kept
<1>1. /\ state = "HOST" /\ UNCHANGED <<input, base>> /\ ~returned /\ index <= Len(input)
      /\ ~hasStateOverride /\ stateOverride # "HOSTNAME"
  BY CharRead, NoneAssumption DEF Host, arguments, RecordOK, hasStateOverride, States
<1>2. /\ Shaped(url) /\ (url.special <=> isSpecial(url.scheme))
      /\ url.host = NoHost /\ url.port = None /\ url.path = <<>>
      /\ ~url.cannotBeBase /\ url.scheme # FileScheme
      /\ HasCredentials(url) /\ buffer = <<>> => ~Ends(Ch)
  BY <1>1 DEF RecordOK, InAuthority
<1> DEFINE host == parseHost(buffer, url.special)
<1>3. buffer # <<>> /\ host # NoHost => ~EmptyHost(host)
  BY HostNotEmpty
<1>4. CASE Fail
  BY <1>4, FailKeeps
<1>5. url' = [url EXCEPT !.host = host] =>
          /\ DOMAIN url' = Fields /\ url'.path = url.path /\ url'.host = host
          /\ url'.port = url.port /\ url'.username = url.username /\ url'.password = url.password
          /\ url'.cannotBeBase = url.cannotBeBase
          /\ url'.scheme = url.scheme /\ url'.special = url.special
  BY <1>2, FieldsAre DEF Shaped
<1> HIDE DEF host
<1>6. CASE /\ buffer # <<>> /\ host # NoHost /\ url' = [url EXCEPT !.host = host] /\ Ch # Undefined
           /\ state' = "PORT" /\ index' = index + 1 /\ returned' = FALSE
  BY <1>1, <1>2, <1>3, <1>5, <1>6, CharRead
  DEF RecordOK, BeforeScheme, BeforeAuthority, AgainstBase, InAuthority, InFile, InPath, AfterPath,
      LastStates, Unlocated, Kept, Shaped
<1>7. CASE /\ EndsAuthority /\ ~(url.special /\ buffer = <<>>)
           /\ host # NoHost /\ url' = [url EXCEPT !.host = host]
           /\ state' = "PATH_START" /\ index' = index /\ returned' = FALSE
  <2>1. HasCredentials(url) => buffer # <<>>
    BY <1>2, <1>7 DEF Ends, EndsAuthority, specialBackSlash
  <2>2. Located'
    BY <1>2, <1>3, <1>5, <1>7, <2>1 DEF Located, HasCredentials
  <2>3. Shaped(url') /\ (url'.special <=> isSpecial(url'.scheme))
    BY <1>2, <1>5, <1>7 DEF Shaped
  <2> QED
    BY <1>1, <1>7, <2>2, <2>3, InPathKept DEF Kept
<1>8. CASE /\ Ch # Undefined /\ buffer' = Append(buffer, Ch) /\ Break(state)
           /\ UNCHANGED <<atflag, url>>
  <2>1. buffer' # <<>>
    BY <1>8, CharRead, AppendProperties DEF PlaceOK
  <2> QED
    BY <1>1, <1>2, <1>8, <2>1, CharRead
    DEF RecordOK, BeforeScheme, BeforeAuthority, AgainstBase, InAuthority, InFile, InPath, AfterPath,
        LastStates, Unlocated, Kept, Break, Go
<1>9. ASSUME NEW next, NEW i, NEW returns \in BOOLEAN, ~returns, HostRead(next, i, returns)
      PROVE  \/ Fail
             \/ /\ host # NoHost /\ url' = [url EXCEPT !.host = host]
                /\ state' = next /\ index' = i /\ returned' = FALSE
  BY <1>9 DEF HostRead, host
<1>10. hasStateOverride \in BOOLEAN /\ (stateOverride = "HOSTNAME") \in BOOLEAN
  BY DEF hasStateOverride
<1>11. HostRead("PORT", index + 1, stateOverride = "HOSTNAME") /\ buffer # <<>> /\ Ch = ":" => Kept
  <2> SUFFICES ASSUME HostRead("PORT", index + 1, stateOverride = "HOSTNAME"), buffer # <<>>, Ch = ":"
               PROVE  Kept
    OBVIOUS
  <2>1. \/ Fail
        \/ /\ host # NoHost /\ url' = [url EXCEPT !.host = host]
           /\ state' = "PORT" /\ index' = index + 1 /\ returned' = FALSE
    BY <1>1, <1>9, <1>10
  <2> QED
    BY <2>1, <1>4, <1>6 DEF Undefined
<1>12. /\ HostRead("PATH_START", index, hasStateOverride)
       /\ EndsAuthority /\ ~(url.special /\ buffer = <<>>)
       => Kept
  <2> SUFFICES ASSUME HostRead("PATH_START", index, hasStateOverride),
                      EndsAuthority, ~(url.special /\ buffer = <<>>)
               PROVE  Kept
    OBVIOUS
  <2>1. \/ Fail
        \/ /\ host # NoHost /\ url' = [url EXCEPT !.host = host]
           /\ state' = "PATH_START" /\ index' = index /\ returned' = FALSE
    BY <1>1, <1>9, <1>10
  <2> QED
    BY <2>1, <1>4, <1>7
<1> QED
  BY <1>4, <1>8, <1>11, <1>12 DEF Host, EndsAuthority, Undefined

LEMMA PortKept ==
    ASSUME PlaceOK, BaseOK, RecordOK, ~Finished, Port, UNCHANGED arguments, stateOverride = None
    PROVE  Kept
<1>1. /\ state = "PORT" /\ UNCHANGED <<input, base, flags>> /\ ~returned /\ index <= Len(input)
      /\ ~hasStateOverride /\ stateOverride # "HOST"
  BY CharRead, NoneAssumption DEF Port, arguments, RecordOK, hasStateOverride, States
<1>2. /\ Shaped(url) /\ (url.special <=> isSpecial(url.scheme))
      /\ ~EmptyHost(url.host) /\ url.scheme # FileScheme /\ url.path = <<>> /\ ~url.cannotBeBase
  BY <1>1 DEF RecordOK, InAuthority
<1> DEFINE port == parseInt(buffer, 10)
           normal == normalizePort(url.scheme, port)
           toFailed == [url EXCEPT !.failed = TRUE]
           toPort == [url EXCEPT !.port = normal, !.isDefaultSchemePort = @ \/ normal = None]
<1>3. /\ DOMAIN toPort = Fields /\ toPort.path = url.path /\ toPort.host = url.host
      /\ toPort.username = url.username /\ toPort.password = url.password
      /\ toPort.cannotBeBase = url.cannotBeBase
      /\ toPort.scheme = url.scheme /\ toPort.special = url.special
      /\ toFailed.failed
  BY <1>2, FieldsAre DEF Shaped
<1>4. \/ Return /\ url' = toFailed
      \/ Ch # Undefined /\ Break("PORT") /\ url' = url
      \/ Continue("PATH_START") /\ url' \in {url, toPort}
  BY <1>1, CharRead DEF Port
<1> HIDE DEF toFailed, toPort
<1>5. CASE Return /\ url' = toFailed
  BY <1>3, <1>5 DEF Kept, Return
<1>6. CASE Ch # Undefined /\ Break("PORT") /\ url' = url
  BY <1>1, <1>2, <1>6, CharRead
  DEF RecordOK, BeforeScheme, BeforeAuthority, AgainstBase, InAuthority, InFile, InPath, AfterPath,
      LastStates, Unlocated, Kept, Break, Go
<1>7. CASE Continue("PATH_START") /\ url' \in {url, toPort}
  <2>1. Shaped(url') /\ (url'.special <=> isSpecial(url'.scheme)) /\ Located'
    BY <1>2, <1>3, <1>7 DEF Shaped, Located
  <2> QED
    BY <1>1, <1>7, <2>1, InPathKept DEF Kept, Continue, Go
<1> QED
  BY <1>4, <1>5, <1>6, <1>7

-----------------------------------------------------------------------------
(* Texts and paths.                                                        *)

LEMMA LeastNat ==
    ASSUME NEW T, T \subseteq Nat, T # {}
    PROVE  Min(T) \in T /\ \A y \in T : Min(T) <= y
<1> DEFINE R == {ss \in Nat \X Nat : ss[1] < ss[2]}
<1>1. IsWellFoundedOn(R, Nat)
  BY NatLessThanWellFounded DEF OpToRel
<1> HIDE DEF R
<1>2. PICK x \in T : \A y \in T : <<y, x>> \notin R
  BY <1>1, WFMin
<1>3. ASSUME NEW y \in T
      PROVE  x <= y
  <2>1. x \in Nat /\ y \in Nat
    OBVIOUS
  <2>2. y < x => <<y, x>> \in R
    BY <2>1 DEF R
  <2> QED
    BY <1>2, <2>1, <2>2
<1>4. \E z \in T : \A y \in T : z <= y
  BY <1>3
<1> QED
  BY <1>4 DEF Min

\* The last of the places in a text.
LEMMA GreatestPlace ==
    ASSUME NEW n \in Nat, NEW T, T \subseteq 1..n, T # {}
    PROVE  Max(T) \in T
<1> DEFINE U == {n - x : x \in T}
<1>1. U \subseteq Nat
  <2>1. \A x \in T : n - x \in Nat
    OBVIOUS
  <2> QED
    BY <2>1
<1>2. U # {}
  OBVIOUS
<1>3. \E u \in U : \A v \in U : u <= v
  BY <1>1, <1>2, LeastNat
<1>4. \E x \in T : \A y \in T : n - x <= n - y
  BY <1>3
<1>5. \E x \in T : \A y \in T : x >= y
  BY <1>4
<1> QED
  BY <1>5 DEF Max

LEMMA StrippedTyped ==
    ASSUME NEW string \in Seq(Char)
    PROVE  Stripped(string) \in Seq(Char)
<1> DEFINE solid == {i \in DOMAIN string : string[i] \notin Blank}
<1>1. CASE solid = {}
  BY <1>1, EmptySeq DEF Stripped
<1>2. CASE solid # {}
  <2>1. Len(string) \in Nat /\ DOMAIN string = 1..Len(string)
    BY LenProperties
  <2>2. solid \subseteq 1..Len(string) /\ solid \subseteq Nat
    BY <2>1
  <2> HIDE DEF solid
  <2>3. Min(solid) \in 1..Len(string)
    BY <1>2, <2>1, <2>2, LeastNat
  <2>4. Max(solid) \in 1..Len(string)
    BY <1>2, <2>1, <2>2, GreatestPlace
  <2>5. \A i \in Min(solid)..Max(solid) : string[i] \in Char
    BY <2>1, <2>3, <2>4, ElementOfSeq
  <2>6. SubSeq(string, Min(solid), Max(solid)) \in Seq(Char)
    BY <2>3, <2>4, <2>5, SubSeqProperties
  <2> QED
    BY <1>2, <2>6 DEF Stripped, solid
<1> QED
  BY <1>1, <1>2

LEMMA UnpaddedTyped ==
    ASSUME NEW path \in Seq(Segments), path # <<>>
    PROVE  Unpadded(path) \in Seq(Segments) /\ Unpadded(path) # <<>>
<1> DEFINE kept == {i \in DOMAIN path : path[i] # <<>> \/ i = Len(path)}
<1>1. Len(path) \in Nat \ {0} /\ DOMAIN path = 1..Len(path)
  BY LenProperties, EmptySeq
<1>2. Min(kept) \in 1..Len(path)
  <2>1. kept \subseteq Nat /\ Len(path) \in kept
    BY <1>1
  <2> QED
    BY <1>1, <2>1, LeastNat
<1> HIDE DEF kept
<1>3. \A i \in Min(kept)..Len(path) : path[i] \in Segments
  BY <1>1, <1>2, ElementOfSeq
<1>4. /\ SubSeq(path, Min(kept), Len(path)) \in Seq(Segments)
      /\ Len(SubSeq(path, Min(kept), Len(path))) = Len(path) - Min(kept) + 1
  BY <1>1, <1>2, <1>3, SubSeqProperties
<1>5. SubSeq(path, Min(kept), Len(path)) # <<>>
  <2>1. Len(path) - Min(kept) + 1 # 0
    BY <1>1, <1>2
  <2> QED
    BY <1>4, <2>1, EmptySeq
<1> QED
  BY <1>4, <1>5 DEF Unpadded, kept

LEMMA ShortenedTyped ==
    ASSUME NEW path \in Seq(Segments), NEW scheme
    PROVE  Shortened(scheme, path) \in Seq(Segments)
BY FrontIsSegments DEF Shortened

\* Only a separator may leave a path with no segment.
LEMMA PathWithSegmentTyped ==
    ASSUME PlaceOK, url.path \in Seq(Segments)
    PROVE  /\ PathWithSegment \in Seq(Segments)
           /\ ~Separator => PathWithSegment # <<>>
<1> DEFINE trailing == IF Separator THEN <<>> ELSE << <<>> >>
           segment == IF DriveFirst THEN <<buffer[1], ":">> ELSE buffer
           path == CASE isDoubleDotSegment(buffer) -> Shortened(url.scheme, url.path) \o trailing
                     [] isSingleDotSegment(buffer) -> url.path \o trailing
                     [] OTHER -> Append(url.path, segment)
<1>1. trailing \in Seq(Segments) /\ (~Separator => Len(trailing) = 1)
  BY EmptySeq DEF Segments
<1>2. segment \in Segments
  <2>1. CASE DriveFirst
    <3> HIDE DEF trailing, segment, path
    <3>1. buffer[1] \in Char
      <4>1. buffer \in Seq(Char) /\ Len(buffer) = 2 /\ 1 \in 1..2
        BY <2>1 DEF DriveFirst, PlaceOK
      <4> QED
        BY <4>1, ElementOfSeq
    <3>2. ":" \in Char
      BY DEF Char, Punctuation
    <3> QED
      BY <2>1, <3>1, <3>2 DEF Segments, segment
  <2>2. CASE ~DriveFirst
    BY <2>2 DEF PlaceOK, Segments
  <2> QED
    BY <2>1, <2>2
<1>3. ASSUME NEW some \in Seq(Segments)
      PROVE  some \o trailing \in Seq(Segments) /\ (~Separator => some \o trailing # <<>>)
  <2>1. some \o trailing \in Seq(Segments) /\ Len(some \o trailing) = Len(some) + Len(trailing)
    BY <1>1, ConcatProperties
  <2>2. ~Separator => Len(some \o trailing) # 0
    BY <1>1, <2>1, LenProperties
  <2> QED
    BY <2>1, <2>2, EmptySeq
<1>4. Append(url.path, segment) \in Seq(Segments) /\ Append(url.path, segment) # <<>>
  BY <1>2, AppendProperties
<1>5. path \in Seq(Segments) /\ (~Separator => path # <<>>)
  <2>1. Shortened(url.scheme, url.path) \in Seq(Segments)
    BY ShortenedTyped
  <2> HIDE DEF trailing, segment
  <2> QED
    BY <2>1, <1>3, <1>4
<1>6. PathWithSegment = IF url.scheme = FileScheme /\ ~Separator THEN Unpadded(path) ELSE path
  BY DEF PathWithSegment
<1> HIDE DEF path
<1> QED
  BY <1>5, <1>6, UnpaddedTyped
-----------------------------------------------------------------------------
(* Files.                                                                  *)

\* The base of a file, if it has one, is a file's: it has a path.
LEMMA FileBase ==
    ASSUME BaseOK, hasBase, base.scheme = FileScheme
    PROVE  Shaped(base) /\ Whole(base) /\ base.special /\ base.path # <<>> /\ isSpecial(FileScheme)
BY SchemesAssumption DEF BaseOK, hasBase, Whole, isSpecial

LEMMA FileTurnKept ==
    ASSUME PlaceOK, BaseOK, RecordOK, ~Finished, File, UNCHANGED arguments, stateOverride = None
    PROVE  Kept
<1>1. /\ state = "FILE" /\ UNCHANGED <<input, base, flags, buffer>> /\ ~returned
      /\ index <= Len(input)
  BY CharRead DEF File, arguments, Become
<1>2. Bare /\ Shaped(url) /\ (url.special <=> isSpecial(url.scheme)) /\ url.scheme = FileScheme
  BY <1>1 DEF RecordOK, InFile
<1>3. Located
  BY <1>2 DEF Located, Bare, NoCredentials
<1>4. CASE Ch # Undefined /\ Break("FILE_SLASH") /\ url' = url
  BY <1>1, <1>2, <1>4, CharRead, FileKept DEF Kept, Break, Go, Bare, NoCredentials
<1>5. CASE Continue("PATH") /\ url' = url
  <2>1. Located'
    BY <1>3, <1>5 DEF Located
  <2> QED
    BY <1>1, <1>2, <1>5, <2>1, InPathKept DEF Kept, Continue, Go
<1>6. CASE hasBase /\ base.scheme = FileScheme
  <2> DEFINE like == [url EXCEPT !.host = base.host, !.path = base.path]
             shortened == Shortened(FileScheme, base.path)
  <2>1. /\ DOMAIN like = Fields /\ like.path = base.path /\ like.host = base.host
        /\ like.port = None /\ like.username = <<>> /\ like.password = <<>>
        /\ ~like.cannotBeBase /\ like.scheme = FileScheme /\ like.special = url.special
    BY <1>2, FieldsAre DEF Shaped, Bare, NoCredentials, HasCredentials
  <2>2. Shaped(base) /\ Whole(base) /\ base.path # <<>> /\ isSpecial(FileScheme)
    BY <1>6, FileBase
  <2>3. Shaped(like) /\ Whole(like)
    BY <1>2, <2>1, <2>2 DEF Shaped, Whole, HasCredentials
  <2>4. ASSUME NEW query, url' = [like EXCEPT !.query = query]
        PROVE  Shaped(url') /\ Whole(url') /\ url'.scheme = FileScheme
    <3>1. Shaped(url') /\ Whole(url')
      BY <2>3, <2>4, QueryKeeps
    <3>2. url'.scheme = like.scheme
      BY <2>1, <2>4, FieldsAre
    <3> QED
      BY <2>1, <3>1, <3>2
  <2>5. CASE Ch = Undefined /\ Break("FILE") /\ Become([like EXCEPT !.query = base.query])
    <3>1. Shaped(url') /\ Whole(url') /\ url'.scheme = FileScheme
      BY <2>4, <2>5 DEF Become
    <3> QED
      BY <1>1, <2>5, <3>1, CharRead, FileKept DEF Kept, Break, Go, Whole
  <2>6. CASE Break("QUERY") /\ Become([like EXCEPT !.query = <<>>])
    <3>1. Shaped(url') /\ Whole(url')
      BY <2>4, <2>6 DEF Become
    <3> QED
      BY <1>1, <2>6, <3>1, AfterPathKept DEF Kept, Break, Go
  <2>7. CASE Break("FRAGMENT") /\ Become([like EXCEPT !.query = base.query, !.fragment = <<>>])
    <3>1. Shaped(url') /\ Whole(url')
      BY <2>3, <2>7, QueryKeeps DEF Become
    <3> QED
      BY <1>1, <2>7, <3>1, AfterPathKept DEF Kept, Break, Go
  <2>8. CASE Continue("PATH") /\ url' = [like EXCEPT !.path = shortened]
    <3>1. /\ DOMAIN url' = Fields /\ url'.path = shortened
          /\ url'.port = None /\ url'.username = <<>> /\ url'.password = <<>>
          /\ ~url'.cannotBeBase /\ url'.scheme = FileScheme /\ url'.special = url.special
      BY <2>1, <2>8, FieldsAre
    <3>2. shortened \in Seq(Segments)
      BY <2>2, ShortenedTyped DEF Shaped
    <3>3. Shaped(url') /\ Located' /\ (url'.special <=> isSpecial(url'.scheme))
      BY <1>2, <3>1, <3>2 DEF Shaped, Located, HasCredentials
    <3> QED
      BY <1>1, <2>8, <3>3, InPathKept DEF Kept, Continue, Go
  <2>9. CASE ~IsSlash(Ch)
    <3>1. \/ Ch = Undefined /\ Break("FILE") /\ Become([like EXCEPT !.query = base.query])
          \/ Break("QUERY") /\ Become([like EXCEPT !.query = <<>>])
          \/ Break("FRAGMENT") /\ Become([like EXCEPT !.query = base.query, !.fragment = <<>>])
          \/ /\ Continue("PATH")
             /\ Become(IF startsWithWindowsDriveLetter(Rest)
                       THEN url
                       ELSE [like EXCEPT !.path = shortened])
      BY <1>1, <1>6, <2>9, Zenon DEF File, Undefined
    <3> HIDE DEF like, shortened
    <3> QED
      BY <3>1, <1>5, <2>5, <2>6, <2>7, <2>8 DEF Become
  <2>10. CASE IsSlash(Ch)
    BY <1>4, <1>6, <2>10 DEF File, Become, IsSlash, Undefined
  <2> QED
    BY <2>9, <2>10
<1>7. CASE ~(hasBase /\ base.scheme = FileScheme)
  BY <1>4, <1>5, <1>7 DEF File, Become, IsSlash, Undefined
<1> QED
  BY <1>6, <1>7

LEMMA FileSlashKept ==
    ASSUME PlaceOK, BaseOK, RecordOK, ~Finished, FileSlash, UNCHANGED arguments, stateOverride = None
    PROVE  Kept
<1>1. /\ state = "FILE_SLASH" /\ UNCHANGED <<input, base, flags, buffer>> /\ ~returned
      /\ index <= Len(input)
  BY CharRead DEF FileSlash, arguments, Become
<1>2. Bare /\ Shaped(url) /\ (url.special <=> isSpecial(url.scheme)) /\ url.scheme = FileScheme
  BY <1>1 DEF RecordOK, InFile
<1>3. CASE Ch # Undefined /\ Break("FILE_HOST") /\ url' = url
  BY <1>1, <1>2, <1>3, CharRead, FileKept DEF Kept, Break, Go, Bare, NoCredentials
<1>4. CASE Continue("PATH")
  <2> DEFINE toDrive == [url EXCEPT !.path = Append(@, base.path[1])]
             toHost == [url EXCEPT !.host = base.host]
  <2>1. /\ DOMAIN toHost = Fields /\ toHost.path = <<>>
        /\ toHost.port = None /\ toHost.username = <<>> /\ toHost.password = <<>>
        /\ ~toHost.cannotBeBase /\ toHost.scheme = FileScheme /\ toHost.special = url.special
    BY <1>2, FieldsAre DEF Shaped, Bare, NoCredentials, HasCredentials
  <2>2. /\ DOMAIN toDrive = Fields /\ toDrive.path = Append(<<>>, base.path[1])
        /\ toDrive.port = None /\ toDrive.username = <<>> /\ toDrive.password = <<>>
        /\ ~toDrive.cannotBeBase /\ toDrive.scheme = FileScheme /\ toDrive.special = url.special
    BY <1>2, FieldsAre DEF Shaped, Bare, NoCredentials, HasCredentials
  <2>3. hasBase /\ base.scheme = FileScheme => Append(<<>>, base.path[1]) \in Seq(Segments)
    <3>1. SUFFICES ASSUME hasBase, base.scheme = FileScheme
                   PROVE  Append(<<>>, base.path[1]) \in Seq(Segments)
      OBVIOUS
    <3>2. base.path \in Seq(Segments) /\ base.path # <<>>
      BY <3>1, FileBase DEF Shaped
    <3>3. base.path[1] \in Segments
      BY <3>2, ElementOfSeq, EmptySeq, LenProperties
    <3> QED
      BY <3>3, EmptySeq, AppendProperties
  <2>4. \/ url' = url
        \/ hasBase /\ base.scheme = FileScheme /\ url' \in {toDrive, toHost}
    BY <1>4 DEF FileSlash, Become, Continue, Go
  <2> HIDE DEF toDrive, toHost
  <2>5. Shaped(url') /\ Located' /\ (url'.special <=> isSpecial(url'.scheme))
    BY <1>2, <2>1, <2>2, <2>3, <2>4, EmptySeq DEF Shaped, Located, HasCredentials, Bare, NoCredentials
  <2> QED
    BY <1>1, <1>4, <2>5, InPathKept DEF Kept, Continue, Go
<1> QED
  BY <1>3, <1>4 DEF FileSlash, Become, IsSlash, Undefined

LEMMA FileHostKept ==
    ASSUME PlaceOK, BaseOK, RecordOK, ~Finished, FileHost, UNCHANGED arguments, stateOverride = None
    PROVE  Kept
<1>1. /\ state = "FILE_HOST" /\ UNCHANGED <<input, base, flags>> /\ ~returned /\ index <= Len(input)
  BY CharRead DEF FileHost, arguments
<1>2. Bare /\ Shaped(url) /\ (url.special <=> isSpecial(url.scheme)) /\ url.scheme = FileScheme
  BY <1>1 DEF RecordOK, InFile
<1>3. CASE Ch # Undefined /\ Break("FILE_HOST") /\ url' = url
  BY <1>1, <1>2, <1>3, CharRead, FileKept DEF Kept, Break, Go, Bare, NoCredentials
<1>4. CASE Continue("PATH") /\ url' = url
  <2>1. Located'
    BY <1>2, <1>4 DEF Located, Bare, NoCredentials
  <2> QED
    BY <1>1, <1>2, <1>4, <2>1, InPathKept DEF Kept, Continue, Go
<1>5. CASE returned' /\ url' = [url EXCEPT !.failed = TRUE]
  BY <1>2, <1>5, FieldsAre DEF Kept, Shaped
<1>6. CASE /\ Continue("PATH_START")
           /\ \E host : url' = [url EXCEPT !.host = host]
  <2>1. /\ DOMAIN url' = Fields /\ url'.path = <<>>
        /\ url'.port = None /\ url'.username = <<>> /\ url'.password = <<>>
        /\ ~url'.cannotBeBase /\ url'.scheme = FileScheme /\ url'.special = url.special
    BY <1>2, <1>6, FieldsAre DEF Shaped, Bare, NoCredentials, HasCredentials
  <2>2. Shaped(url') /\ Located' /\ (url'.special <=> isSpecial(url'.scheme))
    BY <1>2, <2>1, EmptySeq DEF Shaped, Located, HasCredentials
  <2> QED
    BY <1>1, <1>6, <2>2, InPathKept DEF Kept, Continue, Go
<1> QED
  BY <1>1, <1>3, <1>4, <1>5, <1>6 DEF FileHost, Return, EndsAuthority, Undefined
-----------------------------------------------------------------------------
(* Path, query and fragment.                                               *)

LEMMA PathStartKept ==
    ASSUME PlaceOK, BaseOK, RecordOK, ~Finished, PathStart, UNCHANGED arguments, stateOverride = None
    PROVE  Kept
<1>1. /\ state = "PATH_START" /\ UNCHANGED <<input, base, flags, buffer>> /\ ~returned
      /\ index <= Len(input) /\ ~hasStateOverride
  BY CharRead DEF PathStart, arguments, Become, hasStateOverride
<1>2. Located /\ Shaped(url) /\ (url.special <=> isSpecial(url.scheme))
  BY <1>1 DEF RecordOK, InPath
<1>3. ~url.special => Whole(url)
  BY <1>2 DEF Located, Whole
<1>4. CASE ~url.special /\ Break("QUERY") /\ Become([url EXCEPT !.query = <<>>])
  <2>1. Shaped(url') /\ Whole(url')
    BY <1>2, <1>3, <1>4, QueryKeeps DEF Become
  <2> QED
    BY <1>1, <1>4, <2>1, AfterPathKept DEF Kept, Break, Go
<1>5. CASE ~url.special /\ Break("FRAGMENT") /\ Become([url EXCEPT !.fragment = <<>>])
  <2>1. Shaped(url') /\ Whole(url')
    BY <1>2, <1>3, <1>5, QueryKeeps DEF Become
  <2> QED
    BY <1>1, <1>5, <2>1, AfterPathKept DEF Kept, Break, Go
<1>6. url' = url => Located'
  BY <1>2 DEF Located
<1>7. CASE url' = url /\ Continue("PATH")
  BY <1>1, <1>2, <1>6, <1>7, InPathKept DEF Kept, Continue, Go
<1>8. CASE url' = url /\ Break("PATH") /\ Ch # Undefined
  BY <1>1, <1>2, <1>6, <1>8, CharRead, InPathKept DEF Kept, Break, Go
<1>9. CASE url' = url /\ Break("PATH_START") /\ ~url.special
  BY <1>1, <1>2, <1>6, <1>9, InPathKept DEF Kept, Break, Go
<1>10. CASE url.special
  BY <1>1, <1>7, <1>8, <1>10 DEF PathStart, Become, IsSlash, Undefined
<1>11. CASE ~url.special
  BY <1>1, <1>4, <1>5, <1>7, <1>8, <1>9, <1>11 DEF PathStart, Become, Undefined
<1> QED
  BY <1>10, <1>11

LEMMA PathKept ==
    ASSUME PlaceOK, BaseOK, RecordOK, ~Finished, Path, UNCHANGED arguments, stateOverride = None
    PROVE  Kept
<1>1. /\ state = "PATH" /\ UNCHANGED <<input, base, flags>> /\ ~returned /\ index <= Len(input)
  BY CharRead DEF Path, arguments
<1>2. Located /\ Shaped(url) /\ (url.special <=> isSpecial(url.scheme))
  BY <1>1 DEF RecordOK, InPath
<1> DEFINE drive == DriveFirst /\ ~FalsyHost(url.host)
           next == [url EXCEPT !.path = PathWithSegment,
                        !.host = IF drive THEN Name(<<>>) ELSE @]
<1>3. /\ DOMAIN next = Fields /\ next.path = PathWithSegment
      /\ next.host = url.host \/ url.scheme = FileScheme
      /\ next.port = url.port /\ next.username = url.username /\ next.password = url.password
      /\ next.cannotBeBase = url.cannotBeBase
      /\ next.scheme = url.scheme /\ next.special = url.special
  BY <1>2, FieldsAre DEF Shaped, DriveFirst
<1>4. PathWithSegment \in Seq(Segments) /\ (~Separator => PathWithSegment # <<>>)
  BY <1>2, PathWithSegmentTyped DEF Shaped
<1>5. Shaped(next) /\ (next.special <=> isSpecial(next.scheme))
  BY <1>2, <1>3, <1>4 DEF Shaped
<1>6. /\ ~next.cannotBeBase
      /\ next.special /\ next.scheme # FileScheme => ~EmptyHost(next.host)
      /\ HasCredentials(next) \/ next.port # None =>
             ~EmptyHost(next.host) /\ next.scheme # FileScheme
  BY <1>2, <1>3 DEF Located, HasCredentials
<1>7. ~Separator => Whole(next)
  BY <1>3, <1>4, <1>5, <1>6 DEF Whole
<1>8. CASE Ch = "?" /\ Break("QUERY") /\ url' = [next EXCEPT !.query = <<>>]
  <2>1. ~Separator
    BY <1>8 DEF Separator, specialBackSlash
  <2>2. Shaped(url') /\ Whole(url')
    BY <1>5, <1>7, <1>8, <2>1, QueryKeeps
  <2> QED
    BY <1>1, <1>8, <2>2, AfterPathKept DEF Kept, Break, Go
<1>9. CASE Ch = "#" /\ Break("FRAGMENT") /\ url' = [next EXCEPT !.fragment = <<>>]
  <2>1. ~Separator
    BY <1>9 DEF Separator, specialBackSlash
  <2>2. Shaped(url') /\ Whole(url')
    BY <1>5, <1>7, <1>9, <2>1, QueryKeeps
  <2> QED
    BY <1>1, <1>9, <2>2, AfterPathKept DEF Kept, Break, Go
<1>10. CASE Break("PATH") /\ url' = next
  <2>1. Located'
    BY <1>6, <1>10 DEF Located
  <2>2. index' <= Len(input') \/ url'.path # <<>>
    <3>1. CASE Ch = Undefined
      BY <1>3, <1>4, <1>10, <3>1 DEF Separator, specialBackSlash, Undefined
    <3>2. CASE Ch # Undefined
      BY <1>1, <1>10, <3>2, CharRead DEF Break, Go
    <3> QED
      BY <3>1, <3>2
  <2> QED
    BY <1>1, <1>5, <1>10, <2>1, <2>2, InPathKept DEF Kept, Break, Go
<1>11. CASE Ch # Undefined /\ Break("PATH") /\ url' = url
  <2>1. Located'
    BY <1>2, <1>11 DEF Located
  <2> QED
    BY <1>1, <1>2, <1>11, <2>1, CharRead, InPathKept DEF Kept, Break, Go
<1> QED
  BY <1>1, <1>8, <1>9, <1>10, <1>11 DEF Path, EndsSegment

LEMMA CannotBeBaseKept ==
    ASSUME PlaceOK, BaseOK, RecordOK, ~Finished, CannotBeBase, UNCHANGED arguments,
           stateOverride = None
    PROVE  Kept
<1>1. /\ state = "CANNOT_BE_BASE" /\ UNCHANGED <<input, base, flags, buffer>> /\ ~returned
      /\ index <= Len(input)
  BY CharRead DEF CannotBeBase, arguments, Become
<1>2. Whole(url) /\ url.cannotBeBase /\ Shaped(url)
  BY <1>1 DEF RecordOK, InPath
<1>3. Shaped(url') /\ Whole(url') /\ url'.cannotBeBase
  <2>1. CASE Become(url)
    BY <1>2, <2>1 DEF Become
  <2>2. CASE /\ Ch # Undefined
             /\ Become([url EXCEPT !.path[1] = Append(@, Escaped(Ch, C0_CONTROL_ENCODE_SET))])
    <3> DEFINE word == Append(url.path[1], Escaped(Ch, C0_CONTROL_ENCODE_SET))
               path == [url.path EXCEPT ![1] = word]
    <3>1. /\ DOMAIN url' = Fields /\ url'.path = path /\ url'.host = url.host
          /\ url'.port = url.port /\ url'.username = url.username
          /\ url'.password = url.password /\ url'.cannotBeBase = url.cannotBeBase
          /\ url'.scheme = url.scheme /\ url'.special = url.special
      BY <1>2, <2>2, FieldsAre DEF Become, Shaped
    <3>2. Escaped(Ch, C0_CONTROL_ENCODE_SET) \in Char
      BY <2>2, CharRead, EscapedIsChar
    <3>3. url.path \in Seq(Segments) /\ Len(url.path) = 1
      BY <1>2 DEF Shaped, Whole
    <3>4. url.path[1] \in Segments
      BY <3>3, ElementOfSeq
    <3>5. word \in Segments
      BY <3>2, <3>4, AppendProperties DEF Segments
    <3> HIDE DEF word
    <3>6. path \in Seq(Segments) /\ Len(path) = 1
      BY <3>3, <3>5, ExceptSeq
    <3> HIDE DEF path
    <3> QED
      BY <1>2, <3>1, <3>6, EmptySeq DEF Shaped, Whole, HasCredentials
  <2> QED
    BY <2>1, <2>2 DEF CannotBeBase
<1>4. CASE Break("QUERY") \/ Break("FRAGMENT")
  BY <1>1, <1>3, <1>4, AfterPathKept DEF Kept, Break, Go
<1>5. CASE Break("CANNOT_BE_BASE")
  BY <1>1, <1>3, <1>5
  DEF RecordOK, BeforeScheme, BeforeAuthority, AgainstBase, InAuthority, InFile, InPath, AfterPath,
      LastStates, Unlocated, Kept, Break, Go, Whole
<1> QED
  BY <1>1, <1>4, <1>5 DEF CannotBeBase

LEMMA QueryTurnKept ==
    ASSUME PlaceOK, BaseOK, RecordOK, ~Finished, Query, UNCHANGED arguments, stateOverride = None
    PROVE  Kept
<1>1. state = "QUERY" /\ UNCHANGED <<input, base, flags>> /\ ~returned
  BY CharRead DEF Query, arguments
<1>2. Whole(url) /\ Shaped(url)
  BY <1>1 DEF RecordOK, AfterPath
<1>3. (Break("QUERY") \/ Break("FRAGMENT")) /\ (url' = url \/ url' = [url EXCEPT !.query = buffer])
  BY <1>1 DEF Query
<1>4. Shaped(url') /\ Whole(url')
  <2>1. CASE url' = url
    BY <1>2, <2>1
  <2>2. CASE url' = [url EXCEPT !.query = buffer]
    BY <1>2, <2>2, QueryKeeps
  <2> QED
    BY <1>3, <2>1, <2>2
<1> QED
  BY <1>1, <1>3, <1>4, AfterPathKept DEF Kept, Break, Go

LEMMA FragmentTurnKept ==
    ASSUME PlaceOK, BaseOK, RecordOK, ~Finished, Fragment, UNCHANGED arguments, stateOverride = None
    PROVE  Kept
<1>1. state = "FRAGMENT" /\ UNCHANGED <<input, base, flags>> /\ ~returned
  BY CharRead DEF Fragment, arguments
<1>2. Whole(url) /\ Shaped(url)
  BY <1>1 DEF RecordOK, AfterPath
<1>3. Break("FRAGMENT") /\ (url' = url \/ url' = [url EXCEPT !.fragment = buffer])
  BY <1>1 DEF Fragment
<1>4. Shaped(url') /\ Whole(url')
  <2>1. CASE url' = url
    BY <1>2, <2>1
  <2>2. CASE url' = [url EXCEPT !.fragment = buffer]
    BY <1>2, <2>2, QueryKeeps
  <2> QED
    BY <1>3, <2>1, <2>2
<1> QED
  BY <1>1, <1>3, <1>4, AfterPathKept DEF Kept, Break, Go
-----------------------------------------------------------------------------
(* The calls, and the invariant.                                           *)

LEMMA ParserStepTurn ==
    ASSUME PlaceOK, ParserStep
    PROVE  Turn
BY SchemeStartTurn, SchemeTurn, NoSchemeTurn, SpecialRelativeOrAuthorityTurn, 
   PathOrAuthorityTurn, RelativeTurn, RelativeSlashTurn, SpecialAuthoritySlashesTurn, 
   SpecialAuthorityIgnoreSlashesTurn, AuthorityTurn, HostTurn, PortTurn, FileTurn, 
   FileSlashTurn, FileHostTurn, PathStartTurn, PathTurn, CannotBeBaseTurn, QueryTurn, 
   FragmentTurn
DEF ParserStep

LEMMA ParserStepKept ==
    ASSUME PlaceOK, BaseOK, RecordOK, ParserStep, stateOverride = None
    PROVE  Kept
BY SchemeStartKept, SchemeKept, NoSchemeKept, SpecialRelativeOrAuthorityKept, 
   PathOrAuthorityKept, RelativeTurnKept, RelativeSlashKept, SpecialAuthoritySlashesKept, 
   SpecialAuthorityIgnoreSlashesKept, AuthorityTurnKept, HostKept, PortKept, FileTurnKept, 
   FileSlashKept, FileHostKept, PathStartKept, PathKept, CannotBeBaseKept, QueryTurnKept, 
   FragmentTurnKept
DEF ParserStep

LEMMA BeginKept ==
    ASSUME NEW string \in Seq(Char), NEW baseURL, NEW override,
           override \in {None, "SCHEME_START", "AUTHORITY", "HOST", "HOSTNAME", "PORT", "PATH_START",
                         "FRAGMENT"},
           baseURL # None => Shaped(baseURL) /\ Whole(baseURL),
           Begin(string, baseURL, override)
    PROVE  /\ PlaceOK' /\ BaseOK' /\ DOMAIN url' = Fields /\ ~returned'
           /\ override = None => RecordOK'
<1>1. input' \in Seq(Char)
  BY StrippedTyped DEF Begin
<1>2. Len(input') \in Nat /\ Len(buffer') = 0 /\ buffer' \in Seq(Char)
  BY <1>1, EmptySeq, LenProperties DEF Begin
<1>3. PlaceOK'
  <2>1. state' \in States
    BY DEF Begin, States
  <2>2. index' = 0 /\ returned' = FALSE /\ buffer' = <<>>
    BY DEF Begin
  <2>3. index' \in Nat /\ index' <= Len(input') + 1 /\ Len(buffer') <= index'
    BY <1>2, <2>2
  <2>4. returned' \in BOOLEAN
    BY <2>2
  <2> QED
    BY <1>1, <1>2, <2>1, <2>2, <2>3, <2>4 DEF PlaceOK
<1>4. BaseOK'
  BY DEF Begin, BaseOK
<1>5. DOMAIN url' = Fields /\ ~returned'
  BY DEF Begin, Fields
<1>6. ASSUME override = None
      PROVE  RecordOK'
  BY <1>2, <1>6, BlankIsShaped
  DEF Begin, RecordOK, BeforeScheme, BeforeAuthority, AgainstBase, InAuthority, InFile, InPath,
      AfterPath, LastStates, Unlocated
<1> QED
  BY <1>3, <1>4, <1>5, <1>6

LEMMA ParseKept ==
    ASSUME NEW name \in {"base", "url", "href"} \cup Assignable, NEW string, NEW baseURL, NEW override,
           IF name \in Assignable THEN override = Override[name] ELSE override = None,
           baseURL # None => Shaped(baseURL) /\ Whole(baseURL),
           Parse(name, string, baseURL, override)
    PROVE  URLInvariant'
<1>1. /\ DOMAIN Override = {"protocol", "username", "password", "host", "hostname", "port", "pathname",
                            "hash"}
      /\ \A property \in DOMAIN Override : Override[property] \in
            {"SCHEME_START", "AUTHORITY", "HOST", "HOSTNAME", "PORT", "PATH_START", "FRAGMENT"}
  BY DEF Override
<1>2. override \in {None, "SCHEME_START", "AUTHORITY", "HOST", "HOSTNAME", "PORT", "PATH_START",
                    "FRAGMENT"}
  BY <1>1 DEF Assignable
<1>3. Begin(string, baseURL, override) /\ string \in Seq(Char) /\ call' = name
  BY DEF Parse
<1>4. /\ PlaceOK' /\ BaseOK' /\ DOMAIN url' = Fields /\ ~returned'
      /\ override = None => RecordOK'
  BY <1>2, <1>3, BeginKept
<1>5. stateOverride' = override
  BY <1>3 DEF Begin
<1>6. name \notin {"none", "thrown"} /\ (name \in {"base", "url", "href"} => name \notin Assignable)
  BY <1>1 DEF Assignable
<1> QED
  BY <1>3, <1>4, <1>5, <1>6 DEF URLInvariant

\* A parse that came to the end of its input has made a whole URL.
LEMMA FinishedWhole ==
    ASSUME URLInvariant, call \in {"base", "url", "href"}, Finished, ~url.failed
    PROVE  Shaped(url) /\ Whole(url)
<1>1. RecordOK /\ ~(index <= Len(input)) /\ state \in LastStates
  <2>1. stateOverride = None /\ ~returned
    BY DEF URLInvariant
  <2>2. RecordOK /\ index > Len(input)
    BY <2>1 DEF URLInvariant, Finished
  <2>3. ~(index <= Len(input))
    BY <2>2, LenProperties DEF URLInvariant, PlaceOK
  <2> QED
    BY <2>2, <2>3 DEF RecordOK
<1>2. Shaped(url) /\ (url.special <=> isSpecial(url.scheme))
  BY <1>1 DEF RecordOK
<1>3. CASE state \in {"RELATIVE", "FILE", "CANNOT_BE_BASE", "QUERY", "FRAGMENT"}
  BY <1>1, <1>2, <1>3 DEF RecordOK, AgainstBase, InFile, InPath, AfterPath
<1>4. CASE state \in {"PATH_START", "PATH"}
  <2>1. Located /\ (url.special => url.path # <<>>)
    BY <1>1, <1>4 DEF RecordOK, InPath
  <2> QED
    BY <1>2, <2>1 DEF Located, Whole
<1> QED
  BY <1>1, <1>3, <1>4 DEF LastStates

LEMMA ParserUnchanged ==
    ASSUME UNCHANGED parserVars
    PROVE  /\ PlaceOK' <=> PlaceOK
           /\ BaseOK' <=> BaseOK
           /\ RecordOK' <=> RecordOK
           /\ Finished' <=> Finished
           /\ UNCHANGED <<stateOverride, url, returned>>
<1>1. /\ input' = input /\ base' = base /\ stateOverride' = stateOverride
      /\ state' = state /\ index' = index /\ buffer' = buffer
      /\ atflag' = atflag /\ url' = url /\ returned' = returned
  BY DEF parserVars, arguments, flags
<1>2. PlaceOK' <=> PlaceOK
  BY <1>1 DEF PlaceOK
<1>3. BaseOK' <=> BaseOK
  BY <1>1 DEF BaseOK
<1>4. Finished' <=> Finished
  BY <1>1 DEF Finished
<1>5. Bare' <=> Bare
  BY <1>1 DEF Bare, NoCredentials
<1>6. Located' <=> Located
  BY <1>1 DEF Located
<1>7. (BeforeScheme' <=> BeforeScheme) /\ (BeforeAuthority' <=> BeforeAuthority)
  BY <1>1, <1>5 DEF BeforeScheme, BeforeAuthority
<1>8. AgainstBase' <=> AgainstBase
  BY <1>1, <1>5 DEF AgainstBase
<1>9. InAuthority' <=> InAuthority
  <2>1. Ch' = Ch /\ At(index - Len(buffer))' = At(index - Len(buffer))
    BY <1>1 DEF Ch, At
  <2>2. (Ends(Ch)' <=> Ends(Ch)) /\ (Ends(At(index - Len(buffer)))' <=> Ends(At(index - Len(buffer))))
    BY <1>1, <2>1 DEF Ends
  <2> QED
    BY <1>1, <2>2 DEF InAuthority
<1>10. (InFile' <=> InFile) /\ (InPath' <=> InPath) /\ (AfterPath' <=> AfterPath)
  BY <1>1, <1>5, <1>6 DEF InFile, InPath, AfterPath
<1>11. RecordOK' <=> RecordOK
  BY <1>1, <1>7, <1>8, <1>9, <1>10 DEF RecordOK
<1> QED
  BY <1>1, <1>2, <1>3, <1>4, <1>11

LEMMA InvariantHolds ==
    URLInvariant /\ [Next]_vars => URLInvariant'
<1> SUFFICES ASSUME URLInvariant, [Next]_vars
             PROVE  URLInvariant'
  OBVIOUS
<1>1. ASSUME UNCHANGED parserVars, call' \in {call, "none", "thrown"}, Finished,
             call' = "thrown" => call \in {"base", "url", "thrown"}
      PROVE  URLInvariant'
  BY <1>1, ParserUnchanged DEF URLInvariant
<1>2. CASE ParserStep /\ UNCHANGED callVars
  <2>1. Turn /\ DOMAIN url' = Fields
    BY <1>2, ParserStepTurn, FieldsKept DEF URLInvariant
  <2>2. BaseOK' /\ UNCHANGED <<stateOverride, call>> /\ ~Finished
    BY <1>2 DEF ParserStep, URLInvariant, BaseOK, arguments, callVars
  <2>3. stateOverride = None => Kept
    BY <1>2, <2>2, ParserStepKept DEF URLInvariant, Finished
  <2>4. call \notin {"none", "thrown"}
    BY <2>2 DEF URLInvariant
  <2> QED
    BY <2>1, <2>2, <2>3, <2>4 DEF URLInvariant, Turn, Kept
<1>3. ASSUME NEW string, New(string)
      PROVE  URLInvariant'
  BY <1>3, ParseKept DEF New, Assignable, Override
<1>4. ASSUME NEW string, NEW baseString, NewWithBase(string, baseString)
      PROVE  URLInvariant'
  BY <1>4, ParseKept DEF NewWithBase, Assignable, Override
<1>5. CASE BaseParsed
  <2>1. Shaped(url) /\ Whole(url)
    BY <1>5, FinishedWhole DEF BaseParsed
  <2> QED
    BY <1>5, <2>1, ParseKept DEF BaseParsed, Assignable, Override
<1>6. CASE URLParsed \/ Throws \/ Assigned
  BY <1>1, <1>6 DEF URLParsed, Throws, Assigned
<1>7. ASSUME call = "none", \/ \E p \in Unparsed : AssignEmpty(p)
                            \/ \E v \in Values : AssignSearch(v)
      PROVE  URLInvariant'
  <2>1. Finished
    BY <1>7 DEF URLInvariant
  <2> QED
    BY <1>1, <1>7, <2>1 DEF AssignEmpty, AssignSearch
<1>8. ASSUME NEW p \in Assignable, NEW v \in Values, Assign(p, v)
      PROVE  URLInvariant'
  BY <1>8, ParseKept DEF Assign
<1>9. CASE AssignOwnHref
  BY <1>9, ParseKept DEF AssignOwnHref, Assignable, Override
<1>10. CASE UNCHANGED vars
  <2>1. UNCHANGED parserVars /\ UNCHANGED call
    BY <1>10 DEF vars, callVars
  <2> QED
    BY <2>1, ParserUnchanged DEF URLInvariant
<1> QED
  BY <1>2, <1>3, <1>4, <1>5, <1>6, <1>7, <1>8, <1>9, <1>10 DEF Next

LEMMA InvariantStarts ==
    Init => URLInvariant
<1> SUFFICES ASSUME Init
             PROVE  URLInvariant
  OBVIOUS
<1>1. PlaceOK
  BY EmptySeq DEF Init, PlaceOK, States
<1> QED
  BY <1>1 DEF Init, URLInvariant, BaseOK, Fields, Finished

\* The record is whole as far as it has been read, in every state of the parser.
THEOREM URLInvariantHolds == Spec => []URLInvariant
BY InvariantStarts, InvariantHolds, PTL DEF Spec

\* Each turn of the parser's loop returns or lessens what is left, for every input.
THEOREM ParserAdvances == Spec => Advances
<1>1. ASSUME URLInvariant, [Next]_vars, ~Finished, call' = call, vars' # vars
      PROVE  returned' \/ (Left' \in Nat /\ Left' < Left)
  <2>1. call \notin {"none", "thrown"}
    BY <1>1 DEF URLInvariant
  <2>2. ParserStep
    BY <1>1, <2>1 DEF Next, BaseParsed, URLParsed, Throws, Assigned
  <2>3. PlaceOK /\ Turn /\ UNCHANGED input
    BY <1>1, <2>2, ParserStepTurn DEF URLInvariant, ParserStep, arguments
  <2> QED
    BY <2>3, LeftDecreases
<1>2. URLInvariant /\ [Next]_vars =>
          [~Finished /\ call' = call => returned' \/ (Left' \in Nat /\ Left' < Left)]_vars
  BY <1>1
<1> QED
  BY <1>2, URLInvariantHolds, PTL DEF Spec, Advances

\* What the constructor makes, and what it parses against, is a whole URL.
THEOREM ResultsAreWhole == Spec => []ResultsWhole
<1>1. URLInvariant => ResultsWhole
  BY FinishedWhole DEF ResultsWhole, URLInvariant, BaseOK
<1> QED
  BY <1>1, URLInvariantHolds, PTL
=============================================================================
