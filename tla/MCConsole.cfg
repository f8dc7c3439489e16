SPECIFICATION Spec
CONSTANTS
    FontW = 2
    FontH = 2
    TabWidth = 2
    Modes <- MCModes
    Pictures <- MCPictures
    PixelSpace = 256
    Letters = {"a", "b"}
    MaxTyped = 4
    MaxForeign = 1
INVARIANTS GeometryIsAnswered ScreenIsTail
PROPERTY DrawsInside
