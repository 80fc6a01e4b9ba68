-------------------------------- MODULE URL --------------------------------
(***************************************************************************)
(* A URL object (whatwg/url.js): its constructor, which parses the base    *)
(* and then the URL against it, href, which writes the record as a text,   *)
(* and the assignments to its properties, most of which are another call   *)
(* of the parser, one that starts in the middle of the parser's states     *)
(* with a record of its own, of which one field is kept.                   *)
(*                                                                         *)
(* Left out: searchParams, a list with no say in how a URL is parsed.      *)
(***************************************************************************)
EXTENDS URLParser

CONSTANTS
    URLTexts,       \* the arguments of new URL(url)
    RelativeTexts,  \* those of new URL(url, base)
    BaseTexts,
    EditedTexts,    \* the texts whose URL is assigned to (a bound)
    Values          \* the values assigned

VARIABLES
    call,       \* the call of the parser that runs, or "none"
    text,       \* the first argument of the constructor
    object,     \* this[kURL]
    assigned    \* history: the one assignment (a bound) was made

callVars == <<call, text, object, assigned>>
vars == <<parserVars, callVars>>

\* Where the parser starts for an assigned property, and the field it sets.
Override == [protocol |-> "SCHEME_START", username |-> "AUTHORITY",
             password |-> "AUTHORITY", host |-> "HOST", hostname |-> "HOSTNAME",
             port |-> "PORT", pathname |-> "PATH_START", hash |-> "FRAGMENT"]
Field == [protocol |-> "scheme", username |-> "username", password |-> "password",
          host |-> "host", hostname |-> "host", port |-> "port",
          pathname |-> "path", hash |-> "fragment"]
Assignable == DOMAIN Override
-----------------------------------------------------------------------------
(* href.                                                                   *)

Optional(lead, value) == IF value \in {None, <<>>} THEN <<>> ELSE <<lead>> \o value

\* The digits of a number of at most five.
Decimal(n) ==
    LET width == CASE n < 10 -> 1 [] n < 100 -> 2 [] n < 1000 -> 3 [] n < 10000 -> 4
                   [] OTHER -> 5
    IN  [i \in 1..width |-> Numerals[((n \div 10 ^ (width - i)) % 10) + 1]]

serializeURLHost(host) ==
    LET octet(i) == Decimal((host.number \div 256 ^ (4 - i)) % 256)
    IN  CASE host.kind = "ipv4" ->
                octet(1) \o <<".">> \o octet(2) \o <<".">> \o octet(3) \o <<".">> \o octet(4)
          [] host.kind = "ipv6" -> <<"[">> \o host.text \o <<"]">>
          [] OTHER -> host.text

serializeURLPath(record) ==
    IF record.cannotBeBase
    THEN record.path[1]
    ELSE FlattenSeq([i \in DOMAIN record.path |-> <<"/">> \o record.path[i]])

\* A mutant: a password without a user name is not written.
serializeNamedCredentials(record) ==
    IF record.username = <<>>
    THEN <<>>
    ELSE record.username \o Optional(":", record.password) \o <<"@">>

serializeCredentials(record) ==
    IF record.username = <<>> /\ record.password = <<>>
    THEN <<>>
    ELSE record.username \o Optional(":", record.password) \o <<"@">>

serializeURL(record) ==
    LET slashes == <<"/", "/">>
        port == IF record.isDefaultSchemePort \/ record.port = None
                THEN <<>> ELSE <<":">> \o Decimal(record.port)
        authority ==
            IF ~FalsyHost(record.host)
            THEN slashes \o serializeCredentials(record) \o serializeURLHost(record.host) \o port
            ELSE IF record.scheme = FileScheme THEN slashes ELSE <<>>
    IN  record.scheme \o authority \o serializeURLPath(record)
            \o Optional("?", record.query) \o Optional("#", record.fragment)
-----------------------------------------------------------------------------
(* The calls.                                                              *)

Init ==
    /\ input = <<>> /\ base = None /\ stateOverride = None
    /\ state = "SCHEME_START" /\ index = 0 /\ buffer = <<>>
    /\ atflag = FALSE /\ squareBracketFlag = FALSE /\ passwordTokenSeenFlag = FALSE
    /\ url = BlankURL /\ returned = TRUE
    /\ call = "none" /\ text = None /\ object = None /\ assigned = FALSE

\* The parser is given a string.
Parse(name, string, baseURL, override) ==
    /\ string \in Seq(Char)
    /\ Begin(string, baseURL, override)
    /\ call' = name

New(string) ==
    /\ Parse("url", string, None, None)
    /\ text' = string
    /\ UNCHANGED <<object, assigned>>

NewWithBase(string, baseString) ==
    /\ Parse("base", baseString, None, None)
    /\ text' = string
    /\ UNCHANGED <<object, assigned>>

BaseParsed ==
    /\ call = "base" /\ Finished /\ ~url.failed
    /\ Parse("url", text, url, None)
    /\ UNCHANGED <<text, object, assigned>>

URLParsed ==
    /\ call = "url" /\ Finished /\ ~url.failed
    /\ object' = url
    /\ call' = "none"
    /\ UNCHANGED <<text, assigned, parserVars>>

\* The constructor throws a TypeError: there is no object.
Throws ==
    /\ call \in {"base", "url"} /\ Finished /\ url.failed
    /\ call' = "thrown"
    /\ UNCHANGED <<text, object, assigned, parserVars>>

cannotHaveUsernamePasswordPort ==
    EmptyHost(object.host) \/ object.cannotBeBase \/ object.scheme = FileScheme

MayAssign(property, value) ==
    /\ text \in EditedTexts
    /\ CASE property = "protocol" ->
                value # <<>> /\ ~(object.scheme = FileScheme /\ EmptyHost(object.host))
         [] property \in {"username", "password", "port"} -> ~cannotHaveUsernamePasswordPort
         [] property \in {"host", "hostname", "pathname"} -> ~object.cannotBeBase
         [] OTHER -> TRUE

Unparsed == {"username", "password", "hash"}

AssignEmpty(property) ==
    /\ property \in Unparsed
    /\ MayAssign(property, <<>>)
    /\ object' = [object EXCEPT ![Field[property]] = IF property = "hash" THEN None ELSE <<>>]
    /\ assigned' = TRUE
    /\ UNCHANGED <<call, text, parserVars>>

Assign(property, value) ==
    /\ MayAssign(property, value)
    /\ property \in Unparsed => value # <<>>
    /\ Parse(property,
             IF property = "hash" /\ value[1] = "#" THEN Tail(value) ELSE value,
             None, Override[property])
    /\ assigned' = TRUE
    /\ UNCHANGED <<text, object>>

\* The search is kept in searchParams, the record's query is left empty.
AssignSearch(value) ==
    /\ MayAssign("search", value)
    /\ object' = [object EXCEPT !.query = IF value = <<>> THEN None ELSE <<>>]
    /\ assigned' = TRUE
    /\ UNCHANGED <<call, text, parserVars>>

AssignOwnHref ==
    /\ Parse("href", serializeURL(object), None, None)
    /\ assigned' = TRUE
    /\ UNCHANGED <<text, object>>

\* A parse that failed throws, and the object stays as it is.
Assigned ==
    /\ call \in Assignable \cup {"href"} /\ Finished
    /\ object' = CASE url.failed -> object
                   [] ~url.failed /\ call = "href" -> url
                   [] OTHER -> [object EXCEPT ![Field[call]] = url[Field[call]]]
    /\ call' = "none"
    /\ UNCHANGED <<text, assigned, parserVars>>

Next ==
    \/ ParserStep /\ UNCHANGED callVars
    \/ /\ call = "none" /\ object = None
       /\ \/ \E t \in URLTexts : New(t)
          \/ \E t \in RelativeTexts, b \in BaseTexts : NewWithBase(t, b)
    \/ BaseParsed \/ URLParsed \/ Throws
    \/ /\ call = "none" /\ object # None /\ ~assigned
       /\ \/ \E p \in Unparsed : AssignEmpty(p)
          \/ \E p \in Assignable, v \in Values : Assign(p, v)
          \/ \E v \in Values : AssignSearch(v)
          \/ AssignOwnHref
    \/ Assigned

Spec == Init /\ [][Next]_vars
-----------------------------------------------------------------------------
(* Properties.                                                             *)

\* A state is left only for one of a lower rank.
Rank(s) ==
    CASE s = "SCHEME_START" -> 13
      [] s = "SCHEME" -> 12
      [] s = "NO_SCHEME" -> 11
      [] s \in {"SPECIAL_RELATIVE_OR_AUTHORITY", "PATH_OR_AUTHORITY",
                "SPECIAL_AUTHORITY_SLASHES"} -> 10
      [] s = "RELATIVE" -> 9
      [] s = "RELATIVE_SLASH" -> 8
      [] s = "SPECIAL_AUTHORITY_IGNORE_SLASHES" -> 7
      [] s \in {"AUTHORITY", "FILE"} -> 6
      [] s \in {"HOST", "HOSTNAME", "FILE_SLASH"} -> 5
      [] s \in {"PORT", "FILE_HOST"} -> 4
      [] s = "PATH_START" -> 3
      [] s \in {"PATH", "CANNOT_BE_BASE"} -> 2
      [] s = "QUERY" -> 1
      [] s = "FRAGMENT" -> 0

Left == Rank(state) * (Len(input) + 2) + (Len(input) + 1 - index)

\* The parser comes to an end on every input, however it goes back in it: each
\* turn of the loop returns or lessens what is left, which is a natural number.
Advances ==
    [][~Finished /\ call' = call => returned' \/ (Left' \in Nat /\ Left' < Left)]_vars

HasCredentials(record) == record.username # <<>> \/ record.password # <<>>

Whole(record) ==
    /\ record.special <=> isSpecial(record.scheme)
    /\ record.special => record.path # <<>>
    /\ record.special /\ record.scheme # FileScheme => ~EmptyHost(record.host)
    /\ HasCredentials(record) \/ record.port # None =>
           ~EmptyHost(record.host) /\ record.scheme # FileScheme
    /\ record.cannotBeBase =>
           ~record.special /\ Len(record.path) = 1 /\ record.host = NoHost

\* What the constructor makes, and what a relative reference is parsed against,
\* is a whole URL: a special one has a path, and a host unless it is a file's;
\* credentials and port belong to a host; one that cannot be a base has neither.
\* So the parser never reads a field of a base that is not there.
ResultsWhole ==
    /\ base # None => Whole(base)
    /\ call \in {"base", "url", "href"} /\ Finished /\ ~url.failed => Whole(url)

\* What a reader of the two URLs can tell apart.
SameURL(a, b) ==
    /\ a.scheme = b.scheme /\ a.username = b.username /\ a.password = b.password
    /\ a.path = b.path /\ a.port = b.port
    /\ a.host = b.host \/ (EmptyHost(a.host) /\ EmptyHost(b.host))
    /\ Optional("?", a.query) = Optional("?", b.query)
    /\ Optional("#", a.fragment) = Optional("#", b.fragment)

\* url.href = url.href changes nothing of a special URL but the port: href never
\* writes one, as isDefaultSchemePort is never false (483), so it is lost. Three
\* kinds of URL are left out, which the code does not write as it reads them: the
\* host is the address 0, which href omits; the text ends with an escaped
\* character, a NUL, which is cut off; the first segment of a file's path is a
\* drive letter with |, kept when empty segments before it were dropped, and
\* turned into : when read again.
HrefStable ==
    /\ call = "href" /\ Finished
    /\ object.special /\ object.host # IPv4(0) /\ input = serializeURL(object)
    /\ object.scheme = FileScheme /\ isWindowsDriveLetter(object.path[1])
           => isNormalizedWindowsDriveLetter(object.path[1])
    => ~url.failed /\ SameURL([object EXCEPT !.port = None], url)
=============================================================================
