------------------------------- MODULE MCURL -------------------------------
(* Schemes of one letter: h for http, f for file, x for one not special; l    *)
(* for localhost.  All short texts over the characters that matter after each *)
(* scheme, and longer ones for ports, addresses, escapes and blanks.          *)
EXTENDS URL, TLC

MCLetters == {"a", "e", "f", "h", "l", "x"}
MCspecials == (<<"h", ":">> :> 80) @@ (<<"f", ":">> :> -1)
MCFileScheme == <<"f", ":">>
MCLocalhost == <<"l">>
MCIPv6Texts == {<<":", ":">>}

UpTo(n, chars) == UNION {[1..k -> chars] : k \in 0..n}
After(prefix, texts) == {prefix \o t : t \in texts}
Http == <<"h", ":", "/", "/">>

Ports == {<<"a", ":", "8", "0">>, <<"a", ":", "8", "1">>, <<"a", ":", "6", "5", "5", "3", "5">>,
          <<"a", ":", "6", "5", "5", "3", "6">>, <<"a", ":", "8", "a">>}
Addresses == {<<"[", ":", ":", "]">>, <<"[", ":", ":", "]", ":", "8", "1">>, <<"[", "]">>,
              <<"[", ":", ":">>, <<"0", "x", "1", "a">>, <<"0", "8">>, <<"0", "1", "7", ".">>,
              <<"1", ".", "2", "5", "6">>, <<"1", ".", "2", "5", "6", ".", "1">>,
              <<"1", ".", "1", ".", "1", ".", "1", ".", "1">>,
              <<"1", ".", "0", ".", "0", ".", "2", "5", "6">>}
Escapes == {<<"a", "/", "%", "2", "e", "/", "a">>, <<"a", "/", "a", "/", ".", "%", "2", "e">>,
            <<"a", "@", "a", ":", "a", "@", "a">>, <<"<", "@", "a", "/", "<", "a">>,
            <<"a", ":", "a", ":", "a", "@", "a">>, <<"a", " ", "/">>}
Others == {<<" ", "h", ":", "/", "a", " ">>, <<"a", "+", "x">>, <<"a", "+", ":", "a", "<">>,
           <<"f", ":", "/", "/", "l", "/", "a">>, <<"f", ":", "/", "/", "a", ":", "/", "a">>,
           <<"f", ":", "/", "/", "a", "/", "a", "|">>, <<"f", ":", "/", "/", "<", "[">>,
           <<"f", ":", "/", "/", "/", "/", "a", "|">>}

MCURLTexts ==
    UNION {After(Http, UpTo(4, {"a", "1", "0", ":", "@", "/", ".", "?", "<", "\\", "|"})),
           After(Http, UpTo(3, {"a", "\\", "#", "@"}) \cup Ports \cup Addresses \cup Escapes),
           After(<<"f", ":">>, UpTo(4, {"/", "a", "|", ".", "?", "#"})),
           After(<<"x", ":">>, UpTo(4, {"/", "a", "@", ":", "?", "#"})),
           UpTo(2, {"h", "1", ":", "/"}), Others}
MCRelativeTexts == UpTo(3, {"/", "\\", "a", ".", "?", "#", ":", "|"})
                       \cup {<<"h", ":", "a">>, <<"h", ":", "/", "/", "a">>}
MCBaseTexts == {<<"h", ":", "/", "/", "a", "@", "a", "/", "a", "/", "x">>, <<"x", ":", "a">>,
                <<"f", ":", "/", "a", "|", "/", "a">>, <<"f", ":", "/", "/", "a", "/", "a">>,
                <<"x", ":", "/", "/", "a", "?">>, <<"a">>}
MCEditedTexts == {<<"h", ":", "/", "/", "a">>, <<"f", ":", "/">>, <<"x", ":", "a">>}
MCValues == UpTo(2, {"a", "1", ":", "@", "/", "#"})
=============================================================================
