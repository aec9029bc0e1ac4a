----------------------------- MODULE MCFormats -----------------------------
(***************************************************************************)
(* Description for TLC.                                                     *)
(***************************************************************************)
EXTENDS Description

MCGroupName == <<103, 114, 111, 117, 112>>

\* {"group":   "Group":   }   [   ]   ,   "   \   n+%41   u000a   a blank   -01
\* and a string with a surrogate pair and half of one.
MCPieces ==
    {<<OpenBrace, Quote>> \o MCGroupName \o <<Quote, Colon>>,
     <<Quote, 71>> \o Tail(MCGroupName) \o <<Quote, Colon>>,
     <<CloseBrace>>, <<OpenBracket>>, <<CloseBracket>>, <<Comma>>, <<Quote>>, <<Backslash>>,
     <<110, Plus, Percent, 52, 49>>, <<117, 48, 48, 48, 97>>, <<Space>>, <<Minus, 48, 49>>,
     <<Quote, Backslash, 117, 100, 56, 51, 100, Backslash, 117, 100, 101, 48, 48,
       Backslash, 117, 100, 56, 51, 100>>}
=============================================================================
