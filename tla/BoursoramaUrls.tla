---------------------------- MODULE BoursoramaUrls ----------------------------
(***************************************************************************)
(* The addresses of Boursorama pages: built from tickers, found in pages,  *)
(* classified, checked and stored.  An address is                          *)
(*   [absolute, host, path, slash, query]                                  *)
(* path being the sequence of its segments, slash whether it ends with     *)
(* one, query whether a query or a fragment follows.  What the page reader *)
(* does with a page depends on its address alone.                          *)
(***************************************************************************)
EXTENDS Integers, Sequences, FiniteSetsExt

CONSTANTS None, Tickers,
          Hrefs,    \* addresses that list pages and models hold
          MaxLinks  \* links of a page

(* What an address is, whatever its segments are.                          *)
IsAddress(u) ==
  /\ u = [absolute |-> u.absolute, host |-> u.host, path |-> u.path, slash |-> u.slash, query |-> u.query]
  /\ u.absolute \in BOOLEAN /\ u.query \in BOOLEAN

ASSUME UrlsAssumption == (\A h \in Hrefs : IsAddress(h)) /\ None \notin Tickers

VARIABLE links  \* the hrefs of a list page, in order

ALLOWED_HOSTS == {"www.boursorama.com", "bourse.boursobank.com"}

Page(path, slash) == [absolute |-> TRUE, host |-> "www.boursorama.com", path |-> path,
                      slash |-> slash, query |-> FALSE]

(* Refused unless it is absolute.                                          *)
NormalizeBoursoramaUrl(url) == IF url.absolute THEN [url EXCEPT !.query = FALSE] ELSE None

HasPrefix(url, prefixes) ==
  url.path # <<>> /\ Head(url.path) \in prefixes /\ (Len(url.path) > 1 \/ url.slash)

ValidBoursoramaUrl(url) ==
  url.absolute /\ url.host \in ALLOWED_HOSTS /\ HasPrefix(url, {"bourse", "cours"})

(* BoursoramaHttpClient._validate_url, for every request.                  *)
ClientAccepts(url) ==
  url.host \in ALLOWED_HOSTS /\ HasPrefix(url, {"bourse", "cours", "actualites", "recherche"})

(* Mutant: an absolute href is taken as it is. *)
AbsoluteAsIs(href) == IF href.absolute THEN href ELSE [href EXCEPT !.absolute = TRUE]

AbsoluteBoursoramaUrl(href) ==
  IF href.absolute THEN NormalizeBoursoramaUrl(href)
  ELSE [href EXCEPT !.absolute = TRUE, !.host = "www.boursorama.com"]

-----------------------------------------------------------------------------
TypeAwareUrls(ticker, index_type) ==
  IF index_type = "COMPANY"
  THEN [quote_url |-> Page(<<"cours", ticker>>, TRUE),
        news_url |-> Page(<<"cours", "actualites", ticker>>, TRUE),
        key_figures_url |-> Page(<<"cours", "societe", "chiffres-cles", ticker>>, TRUE)]
  ELSE [quote_url |-> Page(<<"bourse", "trackers", "cours", ticker>>, TRUE),
        composition_url |-> Page(<<"bourse", "trackers", "cours", "composition", ticker>>, TRUE)]

CompanyNewsPartialUrl == [Page(<<"actualites", "_liste">>, FALSE) EXCEPT !.query = TRUE]

SESSION_FEEDS == {Page(<<"bourse", "actualites", "marches">>, TRUE),
                  Page(<<"bourse", "actualites", "finances">>, TRUE)}

CALENDAR_FEEDS ==
  {Page(<<"bourse", "actualites", "calendriers">>, TRUE)}
  \cup {Page(<<"bourse", "actualites", "calendriers", c>>, FALSE) :
          c \in {"societes-cotees", "macroeconomique", "dividendes"}}

(* The patterns, each for a whole path with or without a last slash.       *)
ClassifyUrl(path) ==
  LET Under(prefix) == Len(path) = Len(prefix) + 1 /\ \A k \in DOMAIN prefix : path[k] = prefix[k]
  IN  CASE Under(<<"cours", "actualites">>) -> "company_news_index"
        [] path = <<"bourse", "actualites">> -> "global_hub"
        [] Under(<<"cours", "societe", "chiffres-cles">>) -> "company_key_figures"
        [] Under(<<"bourse", "trackers", "cours", "composition">>) -> "etf_composition"
        [] Under(<<"bourse", "actualites">>) -> "article"
        [] OTHER -> "generic"

Last(path) == path[Len(path)]

ExtractTicker(path) == IF ClassifyUrl(path) = "company_news_index" THEN Last(path) ELSE None

(* infer_news_metadata: category and ticker of a stored page.              *)
InferNewsMetadata(url) ==
  CASE ClassifyUrl(url.path) = "company_key_figures" -> <<"COMPANY_NEWS", Last(url.path)>>
    [] ClassifyUrl(url.path) = "company_news_index" -> <<"COMPANY_NEWS", ExtractTicker(url.path)>>
    [] ClassifyUrl(url.path) = "article" -> <<"MARKETS", None>>
    [] OTHER -> <<"COMPANY_NEWS", None>>

(* The segment after the first place where the marks stand.                *)
Following(marks, path) ==
  LET places == {k \in 1 .. Len(path) - Len(marks) :
                   \A n \in DOMAIN marks : path[k + n - 1] = marks[n]}
  IN  IF places = {} THEN None ELSE path[Min(places) + Len(marks)]

(* _hit_from_path: what a search's redirect leads to.                      *)
HitFromPath(url) ==
  LET tracker == Following(<<"bourse", "trackers", "cours">>, url.path)
      cours == Following(<<"cours">>, url.path)
  IN  IF tracker # None THEN [ticker |-> tracker, is_company |-> FALSE]
      ELSE IF cours # None THEN [ticker |-> cours, is_company |-> TRUE] ELSE None

-----------------------------------------------------------------------------
(* The links to hubs and to further pages, which a list page passes over.  *)
IsListed(href) ==
  "page-2" \notin Range(href.path) /\ (href.query \/ Last(href.path) \notin {"marches", "finances"})

(* The parsers' loop: an address counts once.                              *)
Entries(hrefs, kept) ==
  LET seen[n \in 0 .. Len(hrefs)] ==
        IF n = 0 THEN <<>>
        ELSE LET url == AbsoluteBoursoramaUrl(hrefs[n])
             IN  IF hrefs[n] \notin kept \/ url \in Range(seen[n - 1]) THEN seen[n - 1]
                 ELSE Append(seen[n - 1], url)
  IN  seen[Len(hrefs)]

ParseListPage(hrefs) == Entries(hrefs, {h \in Range(hrefs) : IsListed(h)})

(* The links of a company's news page: all of them.                        *)
ParseCompanyNews(hrefs) == Entries(hrefs, Range(hrefs))

(* PageReader.read: the pages it requests, and what it makes of them.      *)
Requested(url) ==
  IF ClassifyUrl(url.path) = "company_news_index" THEN CompanyNewsPartialUrl
  ELSE NormalizeBoursoramaUrl(url)

Reads(url) ==
  IF ~ValidBoursoramaUrl(url) THEN "refused"
  ELSE IF ClassifyUrl(url.path) \in {"company_news_index", "global_hub"} THEN "news_index" ELSE "article"

(* get_data_from_url: the row that a deep read stores, if any.             *)
StoredRow(url) ==
  IF Reads(url) = "article"
  THEN [source_url |-> NormalizeBoursoramaUrl(url), about |-> InferNewsMetadata(url)] ELSE None

UrlsInit == links = <<>>

UrlsNext == Len(links) < MaxLinks /\ \E h \in Hrefs : links' = Append(links, h)

UrlsSpec == UrlsInit /\ [][UrlsNext]_links

-----------------------------------------------------------------------------
(* The address under which a list page stores a headline is the one under  *)
(* which the agent's deep read of it stores the article, so that the two   *)
(* meet in one row, except for a relative link with a query or a fragment  *)
(* (kept by the first, dropped by the second); and two headlines of a page *)
(* meet only for such a link.  The reader requests nothing that the client *)
(* refuses.                                                                *)
DeepReadsMeetHeadlines ==
  \A entries \in {ParseListPage(links), ParseCompanyNews(links)} :
    \A n \in DOMAIN entries :
      /\ StoredRow(entries[n]) # None => \/ StoredRow(entries[n]).source_url = entries[n]
                                         \/ \E h \in Range(links) : ~h.absolute /\ h.query
      /\ \A k \in 1 .. n - 1 :
           StoredRow(entries[k]) # None /\ StoredRow(entries[k]) = StoredRow(entries[n]) =>
             \E h \in Range(links) : ~h.absolute /\ h.query
      /\ Reads(entries[n]) # "refused" => ClientAccepts(Requested(entries[n]))

(* The pages built from a ticker lead back to it and are read as what they *)
(* were built for, and the client refuses no page that the code asks for.  *)
TickersReturn ==
  \A t \in Tickers :
    LET company == TypeAwareUrls(t, "COMPANY")
        etf == TypeAwareUrls(t, "ETF")
    IN  /\ HitFromPath(company.quote_url) = [ticker |-> t, is_company |-> TRUE]
        /\ HitFromPath(etf.quote_url) = [ticker |-> t, is_company |-> FALSE]
        /\ Reads(company.news_url) = "news_index" /\ ExtractTicker(company.news_url.path) = t
        /\ StoredRow(company.key_figures_url).about = <<"COMPANY_NEWS", t>>
        /\ \A u \in {company.quote_url, company.news_url, company.key_figures_url, etf.quote_url,
                     etf.composition_url} \cup SESSION_FEEDS \cup CALENDAR_FEEDS :
             ClientAccepts(u) /\ ClientAccepts(Requested(u))

(* The functions on addresses agree with each other: both of the above.    *)
AddressesAgree == DeepReadsMeetHeadlines /\ TickersReturn
=============================================================================
