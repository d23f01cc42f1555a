SPECIFICATION Spec
CONSTANTS
    Facts = {f, g}
    MaxFacts = 2
    MaxItems = 3
    MaxSaves = 3
    MaxMishaps = 1
PROPERTY MergeIsAtomic
