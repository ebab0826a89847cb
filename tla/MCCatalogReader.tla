-------------------------- MODULE MCCatalogReader --------------------------
EXTENDS CatalogReader, TLC

CONSTANTS b1, b2

\* The first catalog fills a chunk and part of another.  The second is created
\* empty and gets a page, which its cached detail may have twice: in one chunk
\* of two pages.
MCLists == (b1 :> << <<>>, <<1, 2, 3>>, <<>> >>)
        @@ (b2 :> << <<>>, <<>>, <<7>>, <<>> >>)

\* A catalog that grows by one page, which its cached detail may have twice:
\* in two chunks of one page.
MCGrowing == b2 :> << <<>>, <<1>>, <<1, 7>>, <<>> >>
=============================================================================
