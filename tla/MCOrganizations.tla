--------------------------- MODULE MCOrganizations ---------------------------
EXTENDS Organizations, TLC

\* The row ids of the instance.
MCRowIds == UNION {{UserId(u) : u \in Users},
                   {OrganizationId(s) : s \in Slugs},
                   {MemberId(s, u) : s \in Slugs, u \in Users},
                   {InviteId(i) : i \in Invites}}

\* Concurrent requests are interchangeable, and so are users.
Interchangeable == Permutations(Webs) \cup Permutations(Users)
=============================================================================
