\* A client asks for the status, again and again, while two reviewers race.
SPECIFICATION Spec
CONSTANTS
    Readers = {r1}
    Reviewers = {h1, h2}
SYMMETRY Interchangeable
INVARIANT ToldStaysTrue
INVARIANT PartsOnlyGetNewer
PROPERTY AnswersNeverGoBack
