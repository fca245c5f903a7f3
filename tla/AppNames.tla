-------------------------------- MODULE AppNames --------------------------------
(***************************************************************************)
(* sniToAppType (src/types.cpp): a list of substrings, the first entry     *)
(* with one that occurs in the name decides.                               *)
(***************************************************************************)
EXTENDS Bytes

Entry(app, patterns) == [app |-> app, patterns |-> {Chars(p) : p \in patterns}]

AppTable ==
  << Entry("GOOGLE",     {"google", "gstatic", "googleapis", "ggpht", "gvt1"}),
     Entry("YOUTUBE",    {"youtube", "ytimg", "youtu.be", "yt3.ggpht"}),
     Entry("FACEBOOK",   {"facebook", "fbcdn", "fb.com", "fbsbx", "meta.com"}),
     Entry("INSTAGRAM",  {"instagram", "cdninstagram"}),
     Entry("WHATSAPP",   {"whatsapp", "wa.me"}),
     Entry("TWITTER",    {"twitter", "twimg", "x.com", "t.co"}),
     Entry("NETFLIX",    {"netflix", "nflxvideo", "nflximg"}),
     Entry("AMAZON",     {"amazon", "amazonaws", "cloudfront", "aws"}),
     Entry("MICROSOFT",  {"microsoft", "msn.com", "office", "azure", "live.com",
                                          "outlook", "bing"}),
     Entry("APPLE",      {"apple", "icloud", "mzstatic", "itunes"}),
     Entry("TELEGRAM",   {"telegram", "t.me"}),
     Entry("TIKTOK",     {"tiktok", "tiktokcdn", "musical.ly", "bytedance"}),
     Entry("SPOTIFY",    {"spotify", "scdn.co"}),
     Entry("ZOOM",       {"zoom"}),
     Entry("DISCORD",    {"discord", "discordapp"}),
     Entry("GITHUB",     {"github", "githubusercontent"}),
     Entry("CLOUDFLARE", {"cloudflare", "cf-"}) >>

\* std::tolower on every byte.
lower(name) ==
  <<>> \o [k \in 1 .. Len(name) |-> IF name[k] \in 65 .. 90 THEN name[k] + 32 ELSE name[k]]

\* The entries with a pattern that occurs in the name.
Hits(name) ==
  {k \in 1 .. Len(AppTable) : \E p \in AppTable[k].patterns : Finds(lower(name), p)}

\* A name that no entry matches is some site on the web.
sniToAppType(name) ==
  IF name = <<>> THEN "UNKNOWN"
  ELSE IF Hits(name) = {} THEN "HTTPS"
  ELSE AppTable[CHOOSE k \in Hits(name) : \A h \in Hits(name) : k <= h].app
=================================================================================
