----------------------------- MODULE URLParser -----------------------------
(***************************************************************************)
(* One call of basicURLParse (whatwg/url/parser.js): a loop over the       *)
(* characters of input and the undefined that follows them, a switch on    *)
(* the parser's state, one action here for each case.  A case ends with    *)
(* break, which makes one step in input, with continue, which looks at the *)
(* same character in another state, or with return.  Two cases go back in  *)
(* input: SCHEME, to its start, and AUTHORITY, to where the host began.    *)
(*                                                                         *)
(* A text is a sequence of characters, each a string.  Letters are lower   *)
(* case; a name the code compares with (a scheme, localhost) is a          *)
(* parameter, so that it may be short.  "NUL" and "GRAVE" are characters.  *)
(* Left out: tabs and line ends, which are dropped wherever they are, and  *)
(* the characters from DEL on, which parseOpaqueHost rewrites.  The text   *)
(* inside [ ] is not taken apart: IPv6Texts are those that parseIPv6Host   *)
(* accepts, in the form they are written back.                             *)
(***************************************************************************)
EXTENDS Integers, Sequences, SequencesExt

CONSTANTS
    Letters,
    specials,       \* the special schemes with their default ports
    FileScheme,     \* "file:"
    Localhost,      \* "localhost"
    IPv6Texts,
    None            \* null

ASSUME SchemesAssumption ==
    /\ FileScheme \in DOMAIN specials
    /\ <<>> \notin DOMAIN specials

\* No letter stands for the end of the input.
ASSUME LettersAssumption == "undefined" \notin Letters

VARIABLES
    input,
    base,                   \* a URL record, or None
    stateOverride,          \* a state, or None
    state,
    index,                  \* from 0, as in the code
    buffer,
    atflag,
    squareBracketFlag,
    passwordTokenSeenFlag,
    url,                    \* the record under construction
    returned                \* the call has returned from inside the loop

States == {
    "SCHEME_START", "SCHEME", "NO_SCHEME", "SPECIAL_RELATIVE_OR_AUTHORITY",
    "PATH_OR_AUTHORITY", "RELATIVE", "RELATIVE_SLASH", "SPECIAL_AUTHORITY_SLASHES",
    "SPECIAL_AUTHORITY_IGNORE_SLASHES", "AUTHORITY", "HOST", "HOSTNAME", "PORT",
    "FILE", "FILE_SLASH", "FILE_HOST", "PATH_START", "PATH", "CANNOT_BE_BASE",
    "QUERY", "FRAGMENT"}

\* null is no state: stateOverride is the one or the other.
ASSUME NoneAssumption == None \notin States

arguments == <<input, base, stateOverride>>
flags == <<atflag, squareBracketFlag, passwordTokenSeenFlag>>
parserVars == <<arguments, state, index, buffer, flags, url, returned>>
-----------------------------------------------------------------------------
(* Characters.                                                             *)

Undefined == "undefined"
Numerals == <<"0", "1", "2", "3", "4", "5", "6", "7", "8", "9",
              "a", "b", "c", "d", "e", "f">>
DigitsOf(R) == {Numerals[d] : d \in 1..R}
DigitValue(c) == (CHOOSE d \in DOMAIN Numerals : Numerals[d] = c) - 1
isASCIIDigit(c) == c \in DigitsOf(10)
Punctuation == {":", "/", "\\", "?", "#", "@", "[", "]", ".", "%", "|", "+", "-",
                " ", "\"", "<", ">", "GRAVE", "{", "}", ";", "=", "^", "NUL"}
Char == Letters \cup DigitsOf(10) \cup Punctuation

C0_CONTROL_ENCODE_SET == {"NUL"}
QUERY_ENCODE_SET == C0_CONTROL_ENCODE_SET \cup {" ", "\"", "#", "<", ">"}
FRAGMENT_ENCODE_SET == C0_CONTROL_ENCODE_SET \cup {" ", "\"", "<", ">", "GRAVE"}
PATH_ENCODE_SET == QUERY_ENCODE_SET \cup {"?", "GRAVE", "{", "}"}
USERINFO_ENCODE_SET ==
    PATH_ENCODE_SET \cup {"/", ":", ";", "=", "@", "[", "\\", "]", "^", "|"}

\* hex[ch] has a character for its index, so an escaped character becomes a NUL.
Escaped(c, encodeSet) == IF c \in encodeSet THEN "NUL" ELSE c
EscapedAll(text, encodeSet) == [i \in DOMAIN text |-> Escaped(text[i], encodeSet)]

\* Blanks and control characters are cut off at both ends.
Blank == {" ", "NUL"}
Stripped(text) ==
    LET solid == {i \in DOMAIN text : text[i] \notin Blank}
    IN  IF solid = {} THEN <<>> ELSE SubSeq(text, Min(solid), Max(solid))
-----------------------------------------------------------------------------
(* Path segments and Windows drive letters.                                *)

isWindowsDriveLetter(text) ==
    Len(text) >= 2 /\ text[1] \in Letters /\ text[2] \in {":", "|"}
isNormalizedWindowsDriveLetter(text) == isWindowsDriveLetter(text) /\ text[2] = ":"
startsWithWindowsDriveLetter(text) ==
    /\ isWindowsDriveLetter(text)
    /\ Len(text) = 2 \/ text[3] \in {"/", "\\", "?", "#"}

SingleDots == {<<".">>, <<"%", "2", "e">>}
isSingleDotSegment(text) == text \in SingleDots
isDoubleDotSegment(text) == \E a, b \in SingleDots : text = a \o b

Shortened(scheme, path) ==
    IF \/ path = <<>>
       \/ Len(path) = 1 /\ scheme = FileScheme /\ isNormalizedWindowsDriveLetter(path[1])
    THEN path
    ELSE SubSeq(path, 1, Len(path) - 1)

\* The empty segments a file path begins with are dropped, the last segment kept.
Unpadded(path) ==
    LET kept == {i \in DOMAIN path : path[i] # <<>> \/ i = Len(path)}
    IN  SubSeq(path, Min(kept), Len(path))
-----------------------------------------------------------------------------
(* Schemes and hosts.                                                      *)

isSpecial(scheme) == scheme \in DOMAIN specials

normalizePort(scheme, port) ==
    IF isSpecial(scheme) /\ specials[scheme] = port THEN None ELSE port

NoHost == [kind |-> "null", text |-> <<>>, number |-> 0]
Name(text) == [kind |-> "name", text |-> text, number |-> 0]
IPv6(text) == [kind |-> "ipv6", text |-> text, number |-> 0]
IPv4(n) == [kind |-> "ipv4", text |-> <<>>, number |-> n]
EmptyHost(host) == host \in {NoHost, Name(<<>>)}

\* What a condition on url.host takes for none: the address 0 as well.
FalsyHost(host) == EmptyHost(host) \/ host = IPv4(0)

parseInt(text, R) == FoldLeft(LAMBDA n, c : n * R + DigitValue(c), 0, text)

NaN == -1
parseIPv4Number(text) ==
    LET R == CASE Len(text) < 2 \/ text[1] # "0" -> 10
               [] Len(text) >= 2 /\ text[1] = "0" /\ text[2] = "x" -> 16
               [] OTHER -> 8
        skipped == CASE R = 10 -> 0 [] R = 16 -> 2 [] R = 8 -> 1
        digits == SubSeq(text, skipped + 1, Len(text))
    IN  IF \A i \in DOMAIN digits : digits[i] \in DigitsOf(R)
        THEN parseInt(digits, R)
        ELSE NaN

Split(text) ==
    LET add(parts, c) == IF c = "."
                         THEN Append(parts, <<>>)
                         ELSE [parts EXCEPT ![Len(parts)] = Append(@, c)]
    IN  FoldLeft(add, << <<>> >>, text)

\* Division instead of 256^4, so that TLC's numbers suffice.
parseIPv4(text) ==
    LET split == Split(text)
        parts == IF Len(split) > 1 /\ Last(split) = <<>> THEN Front(split) ELSE split
        n == Len(parts)
        numbers == [i \in 1..n |-> parseIPv4Number(parts[i])]
        place(i) == 256 ^ (4 - i)
    IN  IF n > 4 \/ \E i \in 1..n : parts[i] = <<>> \/ numbers[i] = NaN
        THEN Name(text)
        ELSE IF \/ \E i \in 1..(n - 1) : numbers[i] > 255
                \/ numbers[n] \div place(n) > 255
        THEN NoHost
        ELSE IPv4(FoldLeft(+, numbers[n], [i \in 1..(n - 1) |-> numbers[i] * place(i)]))

Forbidden == {"NUL", " ", "#", "/", ":", "?", "@", "[", "\\", "]"}
containsForbiddenHostCodePoint(text) == \E i \in DOMAIN text : text[i] \in Forbidden

\* No character of Char that is not forbidden is percent-encoded.
parseOpaqueHost(text) ==
    IF containsForbiddenHostCodePoint(text) THEN NoHost ELSE Name(text)

\* NoHost: the text is no host.
parseHost(text, special) ==
    CASE text = <<>> -> Name(<<>>)
      [] text # <<>> /\ text[1] = "[" ->
            LET inside == SubSeq(text, 2, Len(text) - 1)
            IN  IF Last(text) = "]" /\ inside \in IPv6Texts THEN IPv6(inside) ELSE NoHost
      [] OTHER -> IF special /\ ~containsForbiddenHostCodePoint(text)
                  THEN parseIPv4(text)
                  ELSE parseOpaqueHost(text)
-----------------------------------------------------------------------------
(* The loop.                                                               *)

BlankURL == [
    scheme |-> <<>>, username |-> <<>>, password |-> <<>>,
    host |-> NoHost, port |-> None,
    path |-> <<>>, query |-> None, fragment |-> None,
    special |-> FALSE, cannotBeBase |-> FALSE, failed |-> FALSE,
    isDefaultSchemePort |-> TRUE]

At(i) == IF i < Len(input) THEN input[i + 1] ELSE Undefined
Ch == At(index)
Rest == SubSeq(input, index + 1, Len(input))

hasBase == base # None
hasStateOverride == stateOverride # None
specialBackSlash == url.special /\ Ch = "\\"
EndsAuthority == Ch \in {Undefined, "/", "?", "#"} \/ specialBackSlash
IsSlash(c) == c \in {"/", "\\"}

Begin(text, baseURL, override) ==
    /\ input' = Stripped(text)
    /\ base' = baseURL
    /\ stateOverride' = override
    /\ state' = IF override = None THEN "SCHEME_START" ELSE override
    /\ index' = 0
    /\ buffer' = <<>>
    /\ atflag' = FALSE
    /\ squareBracketFlag' = FALSE
    /\ passwordTokenSeenFlag' = FALSE
    /\ url' = BlankURL
    /\ returned' = FALSE

Finished == returned \/ index > Len(input)

Go(next, i) == state' = next /\ index' = i /\ UNCHANGED returned
Break(next) == Go(next, index + 1)
Continue(next) == Go(next, index)
Return == returned' = TRUE /\ UNCHANGED <<state, index>>
Fail == url' = [url EXCEPT !.failed = TRUE] /\ Return /\ UNCHANGED <<buffer, flags>>

\* What a relative reference takes from its base.
WithAuthorityOf(record) ==
    [url EXCEPT !.username = record.username, !.password = record.password,
                !.host = record.host, !.port = record.port]
Become(record) == url' = record /\ UNCHANGED <<buffer, flags>>

SchemeStart ==
    /\ state = "SCHEME_START"
    /\ \/ /\ Ch \in Letters
          /\ buffer' = Append(buffer, Ch)
          /\ Break("SCHEME")
          /\ UNCHANGED <<flags, url>>
       \/ /\ Ch \notin Letters /\ ~hasStateOverride
          /\ Continue("NO_SCHEME")
          /\ UNCHANGED <<buffer, flags, url>>
       \/ Ch \notin Letters /\ hasStateOverride /\ Fail

EndsScheme == Ch = ":" \/ (Ch = Undefined /\ hasStateOverride)

SchemeEnds ==
    LET scheme == Append(buffer, ":")
        special == isSpecial(scheme)
        named == [url EXCEPT !.scheme = scheme, !.special = special,
                             !.port = normalizePort(scheme, url.port)]
    IN  /\ buffer' = <<>>
        /\ UNCHANGED flags
        /\ \/ /\ hasStateOverride
              /\ Return
              /\ url' = IF buffer = <<>> \/ special # url.special THEN url ELSE named
           \/ /\ ~hasStateOverride /\ scheme = FileScheme
              /\ Break("FILE") /\ url' = named
           \/ /\ ~hasStateOverride /\ special /\ scheme # FileScheme
              /\ Break(IF hasBase /\ base.scheme = scheme
                       THEN "SPECIAL_RELATIVE_OR_AUTHORITY"
                       ELSE "SPECIAL_AUTHORITY_SLASHES")
              /\ url' = named
           \/ /\ ~hasStateOverride /\ ~special /\ At(index + 1) = "/"
              /\ Go("PATH_OR_AUTHORITY", index + 2) /\ url' = named
           \/ /\ ~hasStateOverride /\ ~special /\ At(index + 1) # "/"
              /\ Break("CANNOT_BE_BASE")
              /\ url' = [named EXCEPT !.cannotBeBase = TRUE, !.path = << <<>> >>]

Scheme ==
    /\ state = "SCHEME"
    /\ LET more == Ch \in Letters \cup DigitsOf(10) \cup {"+", "-", "."}
       IN  \/ /\ more
              /\ buffer' = Append(buffer, Ch)
              /\ Break("SCHEME")
              /\ UNCHANGED <<flags, url>>
           \/ EndsScheme /\ SchemeEnds
           \/ /\ ~more /\ ~EndsScheme /\ ~hasStateOverride
              /\ buffer' = <<>>
              /\ Go("NO_SCHEME", 0)
              /\ UNCHANGED <<flags, url>>
           \/ ~more /\ ~EndsScheme /\ hasStateOverride /\ Fail

NoScheme ==
    /\ state = "NO_SCHEME"
    /\ \/ /\ hasBase => base.cannotBeBase /\ Ch # "#"
          /\ Fail
       \/ /\ hasBase /\ base.cannotBeBase /\ Ch = "#"
          /\ Become([url EXCEPT !.scheme = base.scheme, !.path = base.path,
                                !.query = base.query, !.fragment = <<>>,
                                !.cannotBeBase = TRUE,
                                !.special = isSpecial(base.scheme)])
          /\ Break("FRAGMENT")
       \/ /\ hasBase /\ ~base.cannotBeBase /\ base.scheme # FileScheme
          /\ Continue("RELATIVE")
          /\ UNCHANGED <<buffer, flags, url>>
       \/ /\ hasBase /\ ~base.cannotBeBase /\ base.scheme = FileScheme
          /\ Become([url EXCEPT !.scheme = FileScheme, !.special = TRUE])
          /\ Continue("FILE")

SpecialRelativeOrAuthority ==
    /\ state = "SPECIAL_RELATIVE_OR_AUTHORITY"
    /\ IF Ch = "/" /\ At(index + 1) = "/"
       THEN Go("SPECIAL_AUTHORITY_IGNORE_SLASHES", index + 2)
       ELSE Continue("RELATIVE")
    /\ UNCHANGED <<buffer, flags, url>>

\* The character that is not a slash is passed over, not read again as PATH.
PathOrAuthority ==
    /\ state = "PATH_OR_AUTHORITY"
    /\ Break(IF Ch = "/" THEN "AUTHORITY" ELSE "PATH")
    /\ UNCHANGED <<buffer, flags, url>>

Relative ==
    /\ state = "RELATIVE"
    /\ LET named == [url EXCEPT !.scheme = base.scheme, !.special = isSpecial(base.scheme)]
           like == [WithAuthorityOf(base) EXCEPT !.scheme = base.scheme,
                        !.special = isSpecial(base.scheme), !.path = base.path]
       IN  \/ Ch = Undefined /\ Break(state) /\ Become([like EXCEPT !.query = base.query])
           \/ Ch = "/" /\ Break("RELATIVE_SLASH") /\ Become(named)
           \/ Ch = "?" /\ Break("QUERY") /\ Become([like EXCEPT !.query = <<>>])
           \/ /\ Ch = "#" /\ Break("FRAGMENT")
              /\ Become([like EXCEPT !.query = base.query, !.fragment = <<>>])
           \/ specialBackSlash /\ Break("RELATIVE_SLASH") /\ Become(named)
           \/ /\ Ch \notin {Undefined, "/", "?", "#"} /\ ~specialBackSlash
              /\ Continue("PATH")
              /\ Become([like EXCEPT !.path = SubSeq(base.path, 1, Len(base.path) - 1)])

RelativeSlash ==
    /\ state = "RELATIVE_SLASH"
    /\ \/ /\ url.special /\ IsSlash(Ch)
          /\ Break("SPECIAL_AUTHORITY_IGNORE_SLASHES")
          /\ UNCHANGED <<buffer, flags, url>>
       \/ /\ ~url.special /\ Ch = "/"
          /\ Break("AUTHORITY")
          /\ UNCHANGED <<buffer, flags, url>>
       \/ /\ Ch # "/" /\ ~specialBackSlash
          /\ Continue("PATH")
          /\ Become(WithAuthorityOf(base))

SpecialAuthoritySlashes ==
    /\ state = "SPECIAL_AUTHORITY_SLASHES"
    /\ Go("SPECIAL_AUTHORITY_IGNORE_SLASHES",
          IF Ch = "/" /\ At(index + 1) = "/" THEN index + 2 ELSE index)
    /\ UNCHANGED <<buffer, flags, url>>

\* A mutant: the character after the slashes is handed back.
SlashesIgnoredForEver ==
    /\ state = "SPECIAL_AUTHORITY_IGNORE_SLASHES"
    /\ IF IsSlash(Ch) THEN Break(state) ELSE Continue("SPECIAL_AUTHORITY_SLASHES")
    /\ UNCHANGED <<buffer, flags, url>>

SpecialAuthorityIgnoreSlashes ==
    /\ state = "SPECIAL_AUTHORITY_IGNORE_SLASHES"
    /\ IF IsSlash(Ch) THEN Break(state) ELSE Continue("AUTHORITY")
    /\ UNCHANGED <<buffer, flags, url>>

\* The user name and the password that credentials add, seen a password or not.
Credentials(text, seen) ==
    LET colon == SelectInSeq(text, LAMBDA c : c = ":")
    IN  CASE seen -> <<<<>>, text>>
          [] ~seen /\ colon = 0 -> <<text, <<>>>>
          [] OTHER -> <<SubSeq(text, 1, colon - 1), SubSeq(text, colon + 1, Len(text))>>

Authority ==
    /\ state = "AUTHORITY"
    /\ UNCHANGED squareBracketFlag
    /\ \/ /\ Ch = "@"
          /\ LET text == IF atflag THEN <<"%", "4", "0">> \o buffer ELSE buffer
                 added == Credentials(text, passwordTokenSeenFlag)
             IN  /\ url' = [url EXCEPT
                        !.username = @ \o EscapedAll(added[1], USERINFO_ENCODE_SET),
                        !.password = @ \o EscapedAll(added[2], USERINFO_ENCODE_SET)]
                 /\ passwordTokenSeenFlag' = (passwordTokenSeenFlag \/ Contains(text, ":"))
          /\ atflag' = TRUE
          /\ buffer' = <<>>
          /\ Break(state)
       \/ /\ EndsAuthority /\ atflag /\ buffer = <<>>
          /\ Fail
       \/ /\ EndsAuthority /\ ~(atflag /\ buffer = <<>>)
          /\ buffer' = <<>>
          /\ Go("HOST", index - Len(buffer))
          /\ UNCHANGED <<atflag, passwordTokenSeenFlag, url>>
       \/ /\ Ch # "@" /\ ~EndsAuthority
          /\ buffer' = Append(buffer, Ch)
          /\ Break(state)
          /\ UNCHANGED <<atflag, passwordTokenSeenFlag, url>>

\* A mutant: that the host could not be parsed is not noticed.
HostReadUnchecked(next, i, returns) ==
    /\ url' = [url EXCEPT !.host = parseHost(buffer, url.special)]
    /\ buffer' = <<>>
    /\ state' = next /\ index' = i
    /\ returned' = returns
    /\ UNCHANGED flags

\* A host was read: the call goes on in state next, unless it was for the host only.
HostRead(next, i, returns) ==
    LET host == parseHost(buffer, url.special)
    IN  IF host = NoHost
        THEN Fail
        ELSE /\ url' = [url EXCEPT !.host = host]
             /\ buffer' = <<>>
             /\ state' = next /\ index' = i
             /\ returned' = returns
             /\ UNCHANGED flags

\* An overriding call has no scheme, so it never turns to FILE_HOST (769), and
\* no port and, with an empty buffer, no credentials (800).
Host ==
    /\ state \in {"HOST", "HOSTNAME"}
    /\ LET endsHost == Ch = ":" /\ ~squareBracketFlag
       IN  \/ endsHost /\ buffer = <<>> /\ Fail
           \/ /\ endsHost /\ buffer # <<>>
              /\ HostRead("PORT", index + 1, stateOverride = "HOSTNAME")
           \/ EndsAuthority /\ url.special /\ buffer = <<>> /\ Fail
           \/ /\ EndsAuthority /\ ~(url.special /\ buffer = <<>>)
              /\ HostRead("PATH_START", index, hasStateOverride)
           \/ /\ ~endsHost /\ ~EndsAuthority
              /\ buffer' = Append(buffer, Ch)
              /\ squareBracketFlag' = CASE Ch = "[" -> TRUE
                                        [] Ch = "]" -> FALSE
                                        [] OTHER -> squareBracketFlag
              /\ Break(state)
              /\ UNCHANGED <<atflag, passwordTokenSeenFlag, url>>

Port ==
    /\ state = "PORT"
    /\ UNCHANGED flags
    /\ LET port == parseInt(buffer, 10)
           endsPort == ~isASCIIDigit(Ch) /\ (hasStateOverride \/ EndsAuthority)
       IN  \/ /\ isASCIIDigit(Ch)
              /\ buffer' = Append(buffer, Ch)
              /\ Break(state)
              /\ UNCHANGED url
           \/ /\ endsPort /\ buffer # <<>> /\ port > 65535
              /\ url' = IF stateOverride = "HOST" THEN [url EXCEPT !.port = None]
                                                  ELSE [url EXCEPT !.failed = TRUE]
              /\ Return
              /\ UNCHANGED buffer
           \/ /\ endsPort /\ buffer # <<>> /\ port <= 65535
              /\ url' = [url EXCEPT !.port = normalizePort(url.scheme, port),
                             !.isDefaultSchemePort =
                                 @ \/ normalizePort(url.scheme, port) = None]
              /\ buffer' = <<>>
              /\ Continue("PATH_START")
           \/ /\ endsPort /\ buffer = <<>> /\ hasStateOverride
              /\ Return
              /\ UNCHANGED <<buffer, url>>
           \/ /\ endsPort /\ buffer = <<>> /\ ~hasStateOverride
              /\ Continue("PATH_START")
              /\ UNCHANGED <<buffer, url>>
           \/ /\ ~isASCIIDigit(Ch) /\ ~endsPort
              /\ url' = [url EXCEPT !.failed = TRUE]
              /\ Return
              /\ UNCHANGED buffer
-----------------------------------------------------------------------------
(* File URLs.                                                              *)

File ==
    /\ state = "FILE"
    /\ LET fileBase == hasBase /\ base.scheme = FileScheme
           like == [url EXCEPT !.host = base.host, !.path = base.path]
       IN  \/ IsSlash(Ch) /\ Break("FILE_SLASH") /\ Become(url)
           \/ /\ fileBase /\ Ch = Undefined
              /\ Break(state) /\ Become([like EXCEPT !.query = base.query])
           \/ /\ fileBase /\ Ch = "?"
              /\ Break("QUERY") /\ Become([like EXCEPT !.query = <<>>])
           \/ /\ fileBase /\ Ch = "#"
              /\ Break("FRAGMENT")
              /\ Become([like EXCEPT !.query = base.query, !.fragment = <<>>])
           \/ /\ fileBase /\ Ch \notin {Undefined, "?", "#"} /\ ~IsSlash(Ch)
              /\ Continue("PATH")
              /\ Become(IF startsWithWindowsDriveLetter(Rest)
                        THEN url
                        ELSE [like EXCEPT !.path = Shortened(FileScheme, base.path)])
           \/ /\ ~fileBase /\ ~IsSlash(Ch)
              /\ Continue("PATH") /\ Become(url)

FileSlash ==
    /\ state = "FILE_SLASH"
    /\ \/ IsSlash(Ch) /\ Break("FILE_HOST") /\ Become(url)
       \/ /\ ~IsSlash(Ch)
          /\ Continue("PATH")
          /\ Become(CASE \/ ~hasBase
                         \/ hasBase /\ base.scheme # FileScheme
                         \/ startsWithWindowsDriveLetter(Rest) -> url
                      [] OTHER ->
                            IF isNormalizedWindowsDriveLetter(base.path[1])
                            THEN [url EXCEPT !.path = Append(@, base.path[1])]
                            ELSE [url EXCEPT !.host = base.host])

\* Only a call without an override comes here.  A drive letter stays in buffer.
FileHost ==
    /\ state = "FILE_HOST"
    /\ UNCHANGED flags
    /\ LET endsHost == EndsAuthority \/ IsSlash(Ch)
           drive == Len(buffer) = 2 /\ isWindowsDriveLetter(buffer)
           host == parseHost(buffer, url.special)
       IN  \/ /\ ~endsHost
              /\ buffer' = Append(buffer, Ch)
              /\ Break(state)
              /\ UNCHANGED url
           \/ /\ endsHost /\ drive
              /\ Continue("PATH")
              /\ UNCHANGED <<buffer, url>>
           \/ /\ endsHost /\ ~drive /\ host = NoHost
              /\ url' = [url EXCEPT !.failed = TRUE]
              /\ Return
              /\ UNCHANGED buffer
           \/ /\ endsHost /\ ~drive /\ host # NoHost
              /\ url' = [url EXCEPT !.host = IF host = Name(Localhost) THEN Name(<<>>) ELSE host]
              /\ buffer' = <<>>
              /\ Continue("PATH_START")
-----------------------------------------------------------------------------
(* Path, query and fragment.                                               *)

PathStart ==
    /\ state = "PATH_START"
    /\ LET query == Ch = "?" /\ ~hasStateOverride
           fragment == Ch = "#" /\ ~hasStateOverride
       IN  \/ /\ url.special
              /\ IF IsSlash(Ch) THEN Break("PATH") ELSE Continue("PATH")
              /\ Become(url)
           \/ /\ ~url.special /\ query
              /\ Break("QUERY") /\ Become([url EXCEPT !.query = <<>>])
           \/ /\ ~url.special /\ fragment
              /\ Break("FRAGMENT") /\ Become([url EXCEPT !.fragment = <<>>])
           \/ /\ ~url.special /\ ~query /\ ~fragment /\ Ch # Undefined
              /\ IF Ch = "/" THEN Break("PATH") ELSE Continue("PATH")
              /\ Become(url)
           \/ ~url.special /\ Ch = Undefined /\ Break(state) /\ Become(url)

Separator == Ch = "/" \/ specialBackSlash
EndsSegment == Ch = Undefined \/ Separator \/ (Ch \in {"?", "#"} /\ ~hasStateOverride)

\* The first segment of a file path may be a drive; then there is no host.
DriveFirst ==
    url.scheme = FileScheme /\ url.path = <<>> /\ Len(buffer) = 2 /\ isWindowsDriveLetter(buffer)

PathWithSegment ==
    LET trailing == IF Separator THEN <<>> ELSE << <<>> >>
        path == CASE isDoubleDotSegment(buffer) -> Shortened(url.scheme, url.path) \o trailing
                  [] isSingleDotSegment(buffer) -> url.path \o trailing
                  [] OTHER -> Append(url.path, IF DriveFirst THEN <<buffer[1], ":">> ELSE buffer)
    IN  IF url.scheme = FileScheme /\ ~Separator THEN Unpadded(path) ELSE path

Path ==
    /\ state = "PATH"
    /\ UNCHANGED flags
    /\ LET next == [url EXCEPT !.path = PathWithSegment,
                        !.host = IF DriveFirst /\ ~FalsyHost(@) THEN Name(<<>>) ELSE @]
       IN  \/ /\ EndsSegment
              /\ buffer' = <<>>
              /\ \/ Ch = "?" /\ Break("QUERY") /\ url' = [next EXCEPT !.query = <<>>]
                 \/ Ch = "#" /\ Break("FRAGMENT") /\ url' = [next EXCEPT !.fragment = <<>>]
                 \/ Ch \notin {"?", "#"} /\ Break(state) /\ url' = next
           \/ /\ ~EndsSegment
              /\ buffer' = Append(buffer, Escaped(Ch, PATH_ENCODE_SET))
              /\ Break(state)
              /\ UNCHANGED url

CannotBeBase ==
    /\ state = "CANNOT_BE_BASE"
    /\ Break(CASE Ch = "?" -> "QUERY" [] Ch = "#" -> "FRAGMENT" [] OTHER -> state)
    /\ Become(IF Ch \in {"?", "#", Undefined}
              THEN url
              ELSE [url EXCEPT !.path[1] = Append(@, Escaped(Ch, C0_CONTROL_ENCODE_SET))])

Query ==
    /\ state = "QUERY"
    /\ UNCHANGED flags
    /\ LET ends == Ch = Undefined \/ (Ch = "#" /\ ~hasStateOverride)
       IN  IF ends
           THEN /\ url' = [url EXCEPT !.query = buffer]
                /\ buffer' = <<>>
                /\ Break(IF Ch = "#" THEN "FRAGMENT" ELSE state)
           ELSE /\ buffer' = Append(buffer, Escaped(Ch, QUERY_ENCODE_SET))
                /\ Break(state)
                /\ UNCHANGED url

Fragment ==
    /\ state = "FRAGMENT"
    /\ Break(state)
    /\ UNCHANGED flags
    /\ IF Ch = Undefined
       THEN url' = [url EXCEPT !.fragment = buffer] /\ UNCHANGED buffer
       ELSE buffer' = Append(buffer, Escaped(Ch, FRAGMENT_ENCODE_SET)) /\ UNCHANGED url

ParserStep ==
    /\ ~Finished
    /\ \/ SchemeStart \/ Scheme \/ NoScheme
       \/ SpecialRelativeOrAuthority \/ PathOrAuthority
       \/ Relative \/ RelativeSlash
       \/ SpecialAuthoritySlashes \/ SpecialAuthorityIgnoreSlashes
       \/ Authority \/ Host \/ Port
       \/ File \/ FileSlash \/ FileHost
       \/ PathStart \/ Path \/ CannotBeBase \/ Query \/ Fragment
    /\ UNCHANGED arguments
=============================================================================
