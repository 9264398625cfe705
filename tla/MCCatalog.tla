------------------------------ MODULE MCCatalog ------------------------------
(* One work under two of one provider's ids, which differ in the year, and *)
(* an id of another provider that one of them names in its details.        *)
EXTENDS Catalog, TLC

TheProvider == [x \in {"tmdb1", "tmdb2", "imdb1"} |->
                   IF x = "imdb1" THEN "imdb" ELSE "tmdb"]
TheStrong == [x \in {"tmdb1", "tmdb2"} |->
                 IF x = "tmdb1" THEN {"imdb1"} ELSE {}]
TheWork == [x \in {"tmdb1", "tmdb2"} |->
               IF x = "tmdb1" THEN "Film, 1999" ELSE "Film, 2000"]

Symmetry == Permutations(Requests)
=============================================================================
